---- MODULE Spec2Model ----
(***************************************************************************)
(* The MJML tag tree of nbmail (src/nbmail/mjml/_core.py) and its image    *)
(* preprocessing pass (src/nbmail/mjml/image_processor.py).                *)
(*                                                                         *)
(* Python objects are records tagged by the field k:                       *)
(*   none | str | int | float | bool | bytes | bytearray | bytesio |       *)
(*   list | dict | tag                                                     *)
(* A tag value holds the index of an MJMLTag object in the heap `nodes`,   *)
(* a bytesio value the name of a BytesIO object in `streams`: two values   *)
(* denote the same object exactly when they hold the same index or name.   *)
(* A dict is the sequence of its <<key, value>> items in insertion order.  *)
(***************************************************************************)
EXTENDS Integers, Sequences, FiniteSets, TLC

VARIABLES
    nodes,      \* the heap of MJMLTag objects, in order of allocation
    streams,    \* the BytesIO objects: name -> [buf, pos, closed]
    built,      \* how many MJMLTag objects the caller has constructed
    out,        \* what the latest _process_mjml_images call returned, and what it was given
    issued,     \* CID filenames returned by the calls before the latest
    drawn,      \* uuid4() values the calls before the latest drew
    calls,      \* how many _process_mjml_images calls have returned
    last,       \* the latest operation: its inputs and its outcome
    threads,    \* the calls in progress, one per thread: its frames and its results
    cid_counter, \* _cid_counter[0], the module-level counter of image_bytes
    files,      \* the file system: path -> the text written there
    server,     \* the calls made on smtplib, in order
    email       \* the Email object the file and SMTP operations are called on

\* the state only the concurrent, file and SMTP operations touch
others == <<threads, cid_counter, files, server, email>>

vars == <<nodes, streams, built, out, issued, drawn, calls, last, threads, cid_counter,
          files, server, email>>

\* ------------------------------------------------------------------ bounds

\* MJMLTag objects the caller constructs
MaxNodes == 3
\* positional arguments of one constructor call
MaxArgs == 2
\* _process_mjml_images calls on the document
MaxCalls == 2
\* image_bytes calls one thread makes
MaxImageCalls == 2
\* Blocks a program creates before it composes emails
MaxBlocks == 2

\* ------------------------------------------------------------------ values

None == [k |-> "none"]
PyStr(s) == [k |-> "str", v |-> s]
PyInt(n) == [k |-> "int", v |-> n]
\* a float with one decimal digit, n/10
PyFloat(n) == [k |-> "float", v |-> n]
PyBool(b) == [k |-> "bool", v |-> b]
PyBytes(b) == [k |-> "bytes", v |-> b]
PyByteArray(b) == [k |-> "bytearray", v |-> b]
PyBytesIO(s) == [k |-> "bytesio", id |-> s]
PyList(xs) == [k |-> "list", items |-> xs]
PyDict(kvs) == [k |-> "dict", items |-> kvs]
PyTag(i) == [k |-> "tag", id |-> i]

\* isinstance(v, (bytes, BytesIO))
IsBinary(v) == v.k \in {"bytes", "bytesio"}

HexDigits == <<"0", "1", "2", "3", "4", "5", "6", "7", "8", "9", "a", "b", "c", "d", "e", "f">>

RECURSIVE BytesRepr(_)
\* the inside of repr(b) for bytes outside the printable ASCII range: \xhh each
BytesRepr(b) ==
    IF b = <<>> THEN ""
    ELSE "\\x" \o HexDigits[(Head(b) \div 16) + 1] \o HexDigits[(Head(b) % 16) + 1]
         \o BytesRepr(Tail(b))

\* str(v), as the f-strings and TagAttrDict apply it
Str(v) ==
    CASE v.k = "str" -> v.v
      [] v.k = "int" -> ToString(v.v)
      [] v.k = "float" -> ToString(v.v \div 10) \o "." \o ToString(v.v % 10)
      [] v.k = "bool" -> IF v.v THEN "True" ELSE "False"
      [] v.k = "none" -> "None"
      [] v.k = "bytes" -> "b'" \o BytesRepr(v.v) \o "'"
      [] v.k = "bytearray" -> "bytearray(b'" \o BytesRepr(v.v) \o "')"
      [] v.k = "bytesio" -> "<_io.BytesIO object " \o v.id \o ">"
      [] v.k = "list" -> "[...]"
      [] v.k = "dict" -> "{...}"
      [] v.k = "tag" -> "<MJMLTag>"

\* ------------------------------------------------------------------ dict

DictKeys(d) == {d[i][1] : i \in DOMAIN d}
DictHas(d, key) == key \in DictKeys(d)
DictGet(d, key) == d[CHOOSE i \in DOMAIN d : d[i][1] = key][2]
\* d[key] = val: an existing key keeps its place, a new key goes last
DictSet(d, key, val) ==
    IF DictHas(d, key)
    THEN [i \in DOMAIN d |-> IF d[i][1] = key THEN <<key, val>> ELSE d[i]]
    ELSE Append(d, <<key, val>>)

RECURSIVE TagAttrDict_update_NoneToo(_, _)
TagAttrDict_update_NoneToo(self, items) ==
    IF items = <<>> THEN self
    ELSE LET key == Head(items)[1]
             v == Head(items)[2]
             next == IF IsBinary(v) THEN DictSet(self, key, v)
                     ELSE DictSet(self, key, PyStr(Str(v)))
         IN TagAttrDict_update_NoneToo(next, Tail(items))

RECURSIVE TagAttrDict_update(_, _)
\* TagAttrDict.update(mapping) on the attribute dict `self`
TagAttrDict_update(self, items) ==
    IF items = <<>> THEN self
    ELSE LET key == Head(items)[1]
             v == Head(items)[2]
             next == IF v.k = "none" THEN self
                     ELSE IF IsBinary(v) THEN DictSet(self, key, v)
                     ELSE DictSet(self, key, PyStr(Str(v)))
         IN TagAttrDict_update(next, Tail(items))

\* ------------------------------------------------------------------ MJMLTag

RECURSIVE CollectChildren(_)
\* the loop over args of a container tag
CollectChildren(args) ==
    IF args = <<>> THEN <<>>
    ELSE LET arg == Head(args)
             rest == CollectChildren(Tail(args))
         IN IF arg.k \in {"str", "float", "none", "tag"} THEN <<arg>> \o rest
            ELSE IF arg.k = "list" THEN arg.items \o rest
            ELSE rest

IsMapping_OrString(attributes) == attributes.k \in {"dict", "str"}

\* isinstance(attributes, (dict, TagAttrDict))
IsMapping(attributes) == attributes.k = "dict"

IsContentType_ListsToo(content) == content.k \in {"str", "int", "float", "bool", "list"}

\* isinstance(content, (str, int, float)); bool is a subclass of int
IsContentType(content) == content.k \in {"str", "int", "float", "bool"}

Raised(what) == [ok |-> FALSE, err |-> what]

\* a leaf tag takes one positional argument at most: len(args) > 1
TooManyArgs_OffByOne(args) == Len(args) > 2

TooManyArgs(args) == Len(args) > 1

\* MJMLTag.__init__: [ok |-> TRUE, node |-> the object] or the error it raises
MJMLTag_init(tagName, args, attributes, content, isLeaf) ==
    LET attrs == IF attributes.k = "dict"
                 THEN TagAttrDict_update(<<>>, attributes.items) ELSE <<>>
    IN IF isLeaf
       THEN LET c == IF args # <<>> THEN args[1] ELSE content
            IN IF TooManyArgs(args)
               THEN Raised("TypeError: leaf tag accepts only one positional argument")
               ELSE IF c.k # "none" /\ ~IsContentType(c)
                    THEN Raised("TypeError: content must be a string, int, or float")
               ELSE IF attributes.k # "none" /\ ~IsMapping(attributes)
                    THEN Raised("TypeError: attributes must be a dict or TagAttrDict")
               ELSE [ok |-> TRUE,
                     node |-> [tagName |-> tagName, attrs |-> attrs, content |-> c,
                               children |-> <<>>, isLeaf |-> TRUE]]
       ELSE IF attributes.k # "none" /\ ~IsMapping(attributes)
            THEN Raised("TypeError: attributes must be a dict or TagAttrDict; use positional arguments for container tags")
            ELSE [ok |-> TRUE,
                  node |-> [tagName |-> tagName, attrs |-> attrs, content |-> content,
                            children |-> CollectChildren(args), isLeaf |-> FALSE]]

\* ------------------------------------------------------------------ reading the tree

TagChildIds(children) == {children[i].id : i \in {j \in DOMAIN children : children[j].k = "tag"}}

RECURSIVE ListTagIds(_)
\* the MJMLTag objects a child value holds: itself, or those inside a sequence
ListTagIds(v) ==
    IF v.k = "tag" THEN {v.id}
    ELSE IF v.k = "list" THEN UNION {ListTagIds(v.items[i]) : i \in DOMAIN v.items}
    ELSE {}

HeldIds(children) == UNION {ListTagIds(children[i]) : i \in DOMAIN children}

RECURSIVE Reach(_, _)
\* the objects _process_tag and _to_mjml can visit from id: children that are tags
Reach(heap, id) ==
    {id} \cup UNION {Reach(heap, c) : c \in TagChildIds(heap[id].children)}

RECURSIVE DeepReach(_, _)
\* every MJMLTag object the tree holds, those inside nested sequences included
DeepReach(heap, id) ==
    {id} \cup UNION {DeepReach(heap, c) : c \in HeldIds(heap[id].children)}

\* tag.tagName == "mj-image" and "src" in tag.attrs and isinstance(src, (bytes, BytesIO))
IsBinaryImage(tag) ==
    /\ tag.tagName = "mj-image"
    /\ DictHas(tag.attrs, "src")
    /\ IsBinary(DictGet(tag.attrs, "src"))

\* ------------------------------------------------------------------ base64

B64Alphabet ==
    <<"A", "B", "C", "D", "E", "F", "G", "H", "I", "J", "K", "L", "M", "N", "O", "P",
      "Q", "R", "S", "T", "U", "V", "W", "X", "Y", "Z", "a", "b", "c", "d", "e", "f",
      "g", "h", "i", "j", "k", "l", "m", "n", "o", "p", "q", "r", "s", "t", "u", "v",
      "w", "x", "y", "z", "0", "1", "2", "3", "4", "5", "6", "7", "8", "9", "+", "/">>

B64Char(n) == B64Alphabet[n + 1]
B64Index(c) == (CHOOSE i \in DOMAIN B64Alphabet : B64Alphabet[i] = c) - 1

RECURSIVE b64encode(_)
\* base64.b64encode(b).decode("utf-8"), as the sequence of its characters
b64encode(b) ==
    IF b = <<>> THEN <<>>
    ELSE IF Len(b) = 1
    THEN LET n == b[1] * 65536
         IN <<B64Char(n \div 262144), B64Char((n \div 4096) % 64), "=", "=">>
    ELSE IF Len(b) = 2
    THEN LET n == b[1] * 65536 + b[2] * 256
         IN <<B64Char(n \div 262144), B64Char((n \div 4096) % 64),
              B64Char((n \div 64) % 64), "=">>
    ELSE LET n == b[1] * 65536 + b[2] * 256 + b[3]
         IN <<B64Char(n \div 262144), B64Char((n \div 4096) % 64),
              B64Char((n \div 64) % 64), B64Char(n % 64)>>
            \o b64encode(SubSeq(b, 4, Len(b)))

RECURSIVE b64decode(_)
\* base64.b64decode of a padded base64 text
b64decode(s) ==
    IF s = <<>> THEN <<>>
    ELSE LET n == B64Index(s[1]) * 262144 + B64Index(s[2]) * 4096
                  + (IF s[3] = "=" THEN 0 ELSE B64Index(s[3]) * 64)
                  + (IF s[4] = "=" THEN 0 ELSE B64Index(s[4]))
             three == <<n \div 65536, (n \div 256) % 256, n % 256>>
             keep == IF s[3] = "=" THEN 1 ELSE IF s[4] = "=" THEN 2 ELSE 3
         IN SubSeq(three, 1, keep) \o b64decode(SubSeq(s, 5, Len(s)))

\* ------------------------------------------------------------------ image_processor

BytesIO_getvalue_Draining(strm, name) ==
    [val |-> SubSeq(strm[name].buf, strm[name].pos + 1, Len(strm[name].buf)),
     streams |-> [strm EXCEPT ![name].pos = Len(strm[name].buf)]]

BytesIO_getvalue_FromPosition(strm, name) ==
    [val |-> SubSeq(strm[name].buf, strm[name].pos + 1, Len(strm[name].buf)),
     streams |-> strm]

\* BytesIO.getvalue(): the whole buffer; the read position and the handle are left as they are
BytesIO_getvalue(strm, name) == [val |-> strm[name].buf, streams |-> strm]

\* _convert_to_bytes(obj)
_convert_to_bytes(obj, strm) ==
    IF obj.k = "bytesio"
    THEN [ok |-> TRUE, val |-> BytesIO_getvalue(strm, obj.id).val,
          streams |-> BytesIO_getvalue(strm, obj.id).streams]
    ELSE IF obj.k = "bytes"
    THEN [ok |-> TRUE, val |-> obj.v, streams |-> strm]
    ELSE [ok |-> FALSE, err |-> "TypeError: Unsupported image type", streams |-> strm]

CidFilename_Restarted(cid_id) == "plot_" \o "1" \o ".png"

\* f"plot_{cid_id}.png" for the eight hex digits uuid4() gave
CidFilename(cid_id) == "plot_" \o cid_id \o ".png"

RewrittenAttrs_SrcOnly(attrs, cid_filename) == << <<"src", PyStr("cid:" \o cid_filename)>> >>

\* new_attrs = dict(tag.attrs); new_attrs["src"] = f"cid:{cid_filename}"
RewrittenAttrs(attrs, cid_filename) == DictSet(attrs, "src", PyStr("cid:" \o cid_filename))

RECURSIVE _process_tag(_, _)
RECURSIVE ProcessChildren(_, _, _)

\* _process_tag(tag) on the object `id`. st holds what the closure and the
\* interpreter hold: the heap, the BytesIO objects, inline_attachments (att)
\* and the uuid4() results still to come (toks); st.new is the object returned.
_process_tag(st, id) ==
    LET tag == st.heap[id]
        rewrite == IsBinaryImage(tag)
        conv == _convert_to_bytes(DictGet(tag.attrs, "src"), st.streams)
        cid_filename == CidFilename(Head(st.toks))
        new_attrs == IF rewrite THEN RewrittenAttrs(tag.attrs, cid_filename) ELSE tag.attrs
        new_tag == MJMLTag_init(tag.tagName, <<>>, PyDict(new_attrs), tag.content, tag.isLeaf).node
        newId == Len(st.heap) + 1
        st1 == [heap |-> Append(st.heap, new_tag),
                streams |-> IF rewrite THEN conv.streams ELSE st.streams,
                att |-> IF rewrite THEN DictSet(st.att, cid_filename, b64encode(conv.val))
                        ELSE st.att,
                toks |-> IF rewrite THEN Tail(st.toks) ELSE st.toks,
                new |-> newId]
        st2 == ProcessChildren(st1, newId, tag.children)
    IN [st2 EXCEPT !.new = newId]

ProcessChildren_TagsOnly(st, newId, children) ==
    IF children = <<>> THEN st
    ELSE LET child == Head(children)
             st1 == IF child.k = "tag" THEN _process_tag(st, child.id) ELSE st
             st2 == IF child.k = "tag"
                    THEN [st1 EXCEPT !.heap[newId].children = Append(@, PyTag(st1.new))]
                    ELSE st1
         IN ProcessChildren(st2, newId, Tail(children))

ProcessChildren_Prepending(st, newId, children) ==
    IF children = <<>> THEN st
    ELSE LET child == Head(children)
             st1 == IF child.k = "tag" THEN _process_tag(st, child.id) ELSE st
             appended == IF child.k = "tag" THEN PyTag(st1.new) ELSE child
             st2 == [st1 EXCEPT !.heap[newId].children = <<appended>> \o @]
         IN ProcessChildren(st2, newId, Tail(children))

\* the loop over tag.children, appending to new_tag.children
ProcessChildren(st, newId, children) ==
    IF children = <<>> THEN st
    ELSE LET child == Head(children)
             st1 == IF child.k = "tag" THEN _process_tag(st, child.id) ELSE st
             appended == IF child.k = "tag" THEN PyTag(st1.new) ELSE child
             st2 == [st1 EXCEPT !.heap[newId].children = Append(@, appended)]
         IN ProcessChildren(st2, newId, Tail(children))

RECURSIVE CountImages(_, _)
\* how many times _process_tag reaches the uuid4() call from id
CountImages(heap, id) ==
    LET ch == heap[id].children
        RECURSIVE Sum(_)
        Sum(i) == IF i > Len(ch) THEN 0
                  ELSE (IF ch[i].k = "tag" THEN CountImages(heap, ch[i].id) ELSE 0) + Sum(i + 1)
    IN (IF IsBinaryImage(heap[id]) THEN 1 ELSE 0) + Sum(1)

\* _process_mjml_images(mjml_tag): (processed_tag, inline_attachments), with the heap after it
_process_mjml_images(heap, strm, mjml_tag, toks) ==
    LET st == _process_tag([heap |-> heap, streams |-> strm, att |-> <<>>,
                            toks |-> toks, new |-> 0], mjml_tag)
    IN [heap |-> st.heap, streams |-> st.streams, tag |-> st.new, att |-> st.att]

\* ------------------------------------------------------------------ _to_mjml

Spaces_None(n) == ""

RECURSIVE Spaces(_)
Spaces(n) == IF n = 0 THEN "" ELSE " " \o Spaces(n - 1)

RECURSIVE Join_NoSeparator(_, _)
Join_NoSeparator(eol, strs) ==
    IF strs = <<>> THEN "" ELSE strs[1] \o Join_NoSeparator(eol, Tail(strs))

RECURSIVE Join(_, _)
\* eol.join(strs)
Join(eol, strs) ==
    IF strs = <<>> THEN ""
    ELSE IF Len(strs) = 1 THEN strs[1]
    ELSE strs[1] \o eol \o Join(eol, Tail(strs))

RECURSIVE AttrStr_LastFirst(_)
AttrStr_LastFirst(attrs) ==
    IF attrs = <<>> THEN ""
    ELSE attrs[Len(attrs)][1] \o "=\"" \o Str(attrs[Len(attrs)][2]) \o "\""
         \o (IF Len(attrs) > 1 THEN " " \o AttrStr_LastFirst(SubSeq(attrs, 1, Len(attrs) - 1))
             ELSE "")

RECURSIVE AttrStr(_)
\* " ".join(f'{k}="{v}"' for k, v in self.attrs.items())
AttrStr(attrs) ==
    IF attrs = <<>> THEN ""
    ELSE attrs[1][1] \o "=\"" \o Str(attrs[1][2]) \o "\""
         \o (IF Len(attrs) > 1 THEN " " \o AttrStr(Tail(attrs)) ELSE "")

RECURSIVE _to_mjml(_, _, _, _)
RECURSIVE RenderChildren(_, _, _, _)

_to_mjml_ChildrenToo(heap, id, indent, eol) ==
    LET self == heap[id]
        attr_str == IF self.attrs # <<>> THEN " " \o AttrStr(self.attrs) ELSE ""
        kids == RenderChildren(heap, self.children, indent, eol)
        inner == IF self.content.k # "none"
                 THEN Join(eol, <<Str(self.content)>> \o kids.strs)
                 ELSE Join(eol, kids.strs)
        pad == Spaces(indent)
        own == {Str(self.attrs[i][2]) : i \in DOMAIN self.attrs}
    IN IF IsBinaryImage(self)
       THEN Raised("ValueError: Cannot render MJML with BytesIO/bytes in image src attribute")
       ELSE IF ~kids.ok THEN Raised(kids.err)
       ELSE [ok |-> TRUE,
             s |-> IF inner # ""
                   THEN pad \o "<" \o self.tagName \o attr_str \o ">" \o eol \o inner
                        \o eol \o pad \o "</" \o self.tagName \o ">"
                   ELSE pad \o "<" \o self.tagName \o attr_str \o "></" \o self.tagName \o ">",
             vals |-> own \cup kids.vals]

\* MJMLTag._to_mjml(indent, eol): [ok |-> TRUE, s |-> the markup, vals |-> the
\* attribute values written into it] or the ValueError
_to_mjml(heap, id, indent, eol) ==
    LET self == heap[id]
        attr_str == IF self.attrs # <<>> THEN " " \o AttrStr(self.attrs) ELSE ""
        kids == IF self.content.k # "none"
                THEN [ok |-> TRUE, strs |-> <<>>, vals |-> {}]
                ELSE RenderChildren(heap, self.children, indent, eol)
        inner == IF self.content.k # "none" THEN Str(self.content)
                 ELSE Join(eol, kids.strs)
        pad == Spaces(indent)
        own == {Str(self.attrs[i][2]) : i \in DOMAIN self.attrs}
    IN IF IsBinaryImage(self)
       THEN Raised("ValueError: Cannot render MJML with BytesIO/bytes in image src attribute")
       ELSE IF ~kids.ok THEN Raised(kids.err)
       ELSE [ok |-> TRUE,
             s |-> IF inner # ""
                   THEN pad \o "<" \o self.tagName \o attr_str \o ">" \o eol \o inner
                        \o eol \o pad \o "</" \o self.tagName \o ">"
                   ELSE pad \o "<" \o self.tagName \o attr_str \o "></" \o self.tagName \o ">",
             vals |-> own \cup kids.vals]

\* child_strs: _flatten keeps tags and str/float children and drops the rest
RenderChildren(heap, children, indent, eol) ==
    IF children = <<>> THEN [ok |-> TRUE, strs |-> <<>>, vals |-> {}]
    ELSE LET c == Head(children)
             rest == RenderChildren(heap, Tail(children), indent, eol)
             one == _to_mjml(heap, c.id, indent + 2, eol)
         IN IF c.k = "tag"
            THEN IF ~one.ok THEN Raised(one.err)
                 ELSE IF ~rest.ok THEN Raised(rest.err)
                 ELSE [ok |-> TRUE, strs |-> <<one.s>> \o rest.strs, vals |-> one.vals \cup rest.vals]
            ELSE IF c.k \in {"str", "float"}
            THEN IF ~rest.ok THEN Raised(rest.err)
                 ELSE [ok |-> TRUE, strs |-> <<Str(c)>> \o rest.strs, vals |-> rest.vals]
            ELSE rest

\* ------------------------------------------------------------------ inputs

\* the first eight hex digits of a uuid4(): any value may come, and may come again
Tokens == {"0a1b2c3d", "9f8e7d6c"}

Png3 == <<137, 1, 2>>
Png1 == <<255>>
Buf2 == <<1, 2>>

StreamNames == {"s1"}

\* keyword arguments of the constructor calls that build a document
ImageOfBytes ==
    [tagName |-> "mj-image", isLeaf |-> TRUE, content |-> None,
     attributes |-> PyDict(<< <<"alt", PyStr("A")>>, <<"src", PyBytes(Png3)>>,
                              <<"width", PyInt(600)>> >>)]
ImageOfBytesIO ==
    [tagName |-> "mj-image", isLeaf |-> FALSE, content |-> None,
     attributes |-> PyDict(<< <<"src", PyBytesIO("s1")>> >>)]
ImageOfUrl ==
    [tagName |-> "mj-image", isLeaf |-> TRUE, content |-> None,
     attributes |-> PyDict(<< <<"src", PyStr("https://x/i.png")>> >>)]
ImageOfByteArray ==
    [tagName |-> "mj-image", isLeaf |-> TRUE, content |-> None,
     attributes |-> PyDict(<< <<"src", PyByteArray(Png1)>> >>)]
TextLeaf ==
    [tagName |-> "mj-text", isLeaf |-> TRUE, content |-> PyStr("Hi"), attributes |-> None]
Column ==
    [tagName |-> "mj-column", isLeaf |-> FALSE, content |-> None, attributes |-> None]
ColumnWithContent ==
    [tagName |-> "mj-column", isLeaf |-> FALSE, content |-> PyStr("Hi"), attributes |-> None]
SectionWithBytes ==
    [tagName |-> "mj-section", isLeaf |-> FALSE, content |-> None,
     attributes |-> PyDict(<< <<"background-url", PyBytes(Png1)>> >>)]

TagInputs ==
    {ImageOfBytes, ImageOfBytesIO, ImageOfUrl, ImageOfByteArray, TextLeaf, Column,
     ColumnWithContent, SectionWithBytes}

\* the constructed objects no other object holds yet
Orphans == {i \in 1..built : \A j \in 1..built : i \notin HeldIds(nodes[j].children)}

RECURSIVE Sorted(_)
Sorted(S) ==
    IF S = {} THEN <<>>
    ELSE LET m == CHOOSE x \in S : \A y \in S : x <= y IN <<m>> \o Sorted(S \ {m})

\* how a document passes an object it built as a child: itself, or inside nested lists
Passed(i, how) == IF how = "direct" THEN PyTag(i) ELSE PyList(<<PyList(<<PyTag(i)>>)>>)

\* positional arguments of a container of a document: every object built and not
\* yet held, in order of construction, then possibly some text
ContainerArgs ==
    LET o == Sorted(Orphans)
    IN {[i \in DOMAIN o |-> Passed(o[i], how[i])] \o text :
            how \in [DOMAIN o -> {"direct", "nested"}],
            text \in {<<>>, <<PyStr("txt")>>}}

DocArgs(isLeaf) == IF isLeaf THEN {<<>>} ELSE ContainerArgs

NoOut == [tag |-> 0, att |-> <<>>, pre |-> <<>>, preStreams |-> <<>>, toks |-> <<>>]

\* ------------------------------------------------------------------ the state machine

Init ==
    /\ nodes = <<>>
    /\ streams = [s \in StreamNames |-> [buf |-> Buf2, pos |-> 0, closed |-> FALSE]]
    /\ built = 0
    /\ out = NoOut
    /\ issued = {}
    /\ drawn = {}
    /\ calls = 0
    /\ last = [op |-> "none"]
    /\ threads = <<>>
    /\ cid_counter = 0
    /\ files = <<>>
    /\ server = <<>>
    /\ email = None

\* tag = MJMLTag(tagName, *args, attributes=..., content=..., _is_leaf=...)
Construct(tagName, args, attributes, content, isLeaf) ==
    /\ built < MaxNodes
    /\ calls = 0
    /\ LET r == MJMLTag_init(tagName, args, attributes, content, isLeaf)
       IN /\ nodes' = IF r.ok THEN Append(nodes, r.node) ELSE nodes
          /\ built' = IF r.ok THEN built + 1 ELSE built
          /\ last' = [op |-> "init", tagName |-> tagName, args |-> args,
                      attributes |-> attributes, content |-> content, isLeaf |-> isLeaf,
                      ok |-> r.ok, err |-> IF r.ok THEN "" ELSE r.err]
    /\ UNCHANGED <<streams, out, issued, drawn, calls, others>>

\* processed, inline_attachments = _process_mjml_images(doc), doc the object built last;
\* the result of the call before is dropped
Inline ==
    /\ built >= 1
    /\ calls < MaxCalls
    /\ LET base == SubSeq(nodes, 1, built)
       IN \E toks \in [1..CountImages(base, built) -> Tokens] :
             \E r \in {_process_mjml_images(base, streams, built, toks)} :
                /\ nodes' = r.heap
                /\ streams' = r.streams
                /\ out' = [tag |-> r.tag, att |-> r.att, pre |-> base,
                           preStreams |-> streams, toks |-> toks]
    /\ issued' = issued \cup DictKeys(out.att)
    /\ drawn' = drawn \cup {out.toks[i] : i \in DOMAIN out.toks}
    /\ calls' = calls + 1
    /\ last' = [op |-> "inline"]
    /\ UNCHANGED <<built, others>>

\* markup = tag._to_mjml(indent, eol), on the document or on the processed copy
Render(id, indent, eol) ==
    /\ last' = [op |-> "render", id |-> id, indent |-> indent, eol |-> eol,
                res |-> _to_mjml(nodes, id, indent, eol)]
    /\ UNCHANGED <<nodes, streams, built, out, issued, drawn, calls, others>>

\* the external compiler, from markup to HTML: the HTML is known by its markup only
mjml2html(mjml_markup) == [k |-> "html", of |-> mjml_markup]

\* the cid: references among the attribute values written into a markup
CidRefs(vals) == vals \cap {"cid:" \o CidFilename(t) : t \in Tokens}

\* the tree to_html renders: the tag itself if it is <mjml>, else the tag wrapped in
\* a new <mjml>, or in a new <mj-body> inside a new <mjml>
Wrapped(heap, id) ==
    IF heap[id].tagName = "mjml" THEN [heap |-> heap, root |-> id]
    ELSE IF heap[id].tagName = "mj-body"
    THEN [heap |-> Append(heap, MJMLTag_init("mjml", <<PyTag(id)>>, None, None, FALSE).node),
          root |-> Len(heap) + 1]
    ELSE LET body == MJMLTag_init("mj-body", <<PyTag(id)>>, None, None, FALSE).node
             top == MJMLTag_init("mjml", <<PyTag(Len(heap) + 1)>>, None, None, FALSE).node
         IN [heap |-> heap \o <<body, top>>, root |-> Len(heap) + 2]

\* html = tag.to_html(): the wrappers are dropped when the call returns or raises
ToHtml(id) ==
    /\ \E w \in {Wrapped(nodes, id)} :
       \E res \in {_to_mjml(w.heap, w.root, 0, "\n")} :
          last' = [op |-> "to_html", input |-> PyTag(id), tree |-> id, res |-> res,
                   compiled |-> res.ok,
                   refs |-> IF res.ok THEN CidRefs(res.vals) ELSE {},
                   html |-> IF res.ok THEN mjml2html(res.s) ELSE None,
                   inline_attachments |-> <<>>]
    /\ UNCHANGED <<nodes, streams, built, out, issued, drawn, calls, others>>

\* markup a caller passes as text instead of an MJMLTag
MarkupStrings == {"<mjml></mjml>"}

\* i_email = mjml_to_intermediate_email(doc), doc the object built last: the images
\* are inlined, the copy is rendered, the markup is compiled
EmailOfTag ==
    /\ built >= 1
    /\ calls < MaxCalls
    /\ LET base == SubSeq(nodes, 1, built)
       IN \E toks \in [1..CountImages(base, built) -> Tokens] :
             \E r \in {_process_mjml_images(base, streams, built, toks)} :
             \E res \in {_to_mjml(r.heap, r.tag, 0, "\n")} :
                /\ nodes' = r.heap
                /\ streams' = r.streams
                /\ out' = [tag |-> r.tag, att |-> r.att, pre |-> base,
                           preStreams |-> streams, toks |-> toks]
                /\ last' = [op |-> "email", input |-> PyTag(built), tree |-> r.tag,
                            res |-> res, compiled |-> res.ok,
                            refs |-> IF res.ok THEN CidRefs(res.vals) ELSE {},
                            html |-> IF res.ok THEN mjml2html(res.s) ELSE None,
                            inline_attachments |-> r.att]
    /\ issued' = issued \cup DictKeys(out.att)
    /\ drawn' = drawn \cup {out.toks[i] : i \in DOMAIN out.toks}
    /\ calls' = calls + 1
    /\ UNCHANGED <<built, others>>

\* i_email = mjml_to_intermediate_email(text): the text is compiled as it is
EmailOfString(mjml_content) ==
    /\ last' = [op |-> "email", input |-> PyStr(mjml_content), tree |-> 0,
                res |-> [ok |-> TRUE, s |-> mjml_content, vals |-> {}], compiled |-> TRUE,
                refs |-> {}, html |-> mjml2html(mjml_content),
                inline_attachments |-> <<>>]
    /\ UNCHANGED <<nodes, streams, built, out, issued, drawn, calls, others>>

\* mjml_to_intermediate_email(mjml_content)
mjml_to_intermediate_email ==
    \/ EmailOfTag
    \/ \E mjml_content \in MarkupStrings : EmailOfString(mjml_content)

Next ==
    \/ \E inp \in TagInputs : \E args \in DocArgs(inp.isLeaf) :
          Construct(inp.tagName, args, inp.attributes, inp.content, inp.isLeaf)
    \/ Inline
    \/ \E id \in ({built} \cup {out.tag}) \ {0} : Render(id, 0, "\n")
    \/ built >= 1 /\ ToHtml(built)
    \/ mjml_to_intermediate_email

Spec == Init /\ [][Next]_vars

\* ------------------------------------------------------------------ one constructor call

\* the leaf tags a caller builds first, to pass them on
ChildInputs == {TextLeaf, ImageOfBytes}

\* what the call under test may get as a positional argument
CtorArgItems ==
    {PyStr("txt"), PyStr(""), PyInt(3), PyFloat(15), None}
    \cup {PyTag(i) : i \in 1..built}
    \cup {PyList(<<PyTag(i), PyList(<<PyStr("deep")>>)>>) : i \in {built} \ {0}}

CtorArgLists == UNION {[1..n -> CtorArgItems] : n \in 0..MaxArgs}

CtorAttributes ==
    { None,
      PyDict(<< <<"width", PyInt(100)>>, <<"visible", PyBool(TRUE)>>,
                <<"title", None>>, <<"opacity", PyFloat(5)>> >>),
      PyStr("invalid"),
      PyList(<<PyStr("color"), PyStr("red")>>) }

CtorContents ==
    {None, PyStr("Hello"), PyStr(""), PyInt(7), PyList(<<PyStr("invalid"), PyStr("list")>>)}

CtorTagNames == {"mj-text", "mj-section"}

\* the <<indent, eol>> arguments the object just built is rendered with
RenderArgs == {<<0, "\n">>, <<2, "\r\n">>}

\* the call under test has not been made: nothing was called yet, or the latest
\* call built one of the leaf tags to pass on
BuildingChildren ==
    \/ last.op = "none"
    \/ /\ last.op = "init"
       /\ \E inp \in ChildInputs :
             /\ last.tagName = inp.tagName
             /\ last.args = <<>>
             /\ last.attributes = inp.attributes
             /\ last.content = inp.content
             /\ last.isLeaf = inp.isLeaf

NextInit ==
    \/ /\ BuildingChildren
       /\ built < MaxNodes - 1
       /\ \E inp \in ChildInputs :
             Construct(inp.tagName, <<>>, inp.attributes, inp.content, inp.isLeaf)
    \/ /\ BuildingChildren
       /\ \E tagName \in CtorTagNames, args \in CtorArgLists, attributes \in CtorAttributes,
               content \in CtorContents, isLeaf \in BOOLEAN :
             Construct(tagName, args, attributes, content, isLeaf)
    \/ /\ last.op = "init" /\ last.ok
       /\ \E a \in RenderArgs : Render(built, a[1], a[2])

SpecInit == Init /\ [][NextInit]_vars

\* ------------------------------------------------------------------ reading a call's result

Range(f) == {f[i] : i \in DOMAIN f}

\* some _process_mjml_images call has returned
Returned == out.tag # 0

RECURSIVE Corr(_, _)
\* the pairs <<object of the input tree, object of the returned tree>> at the same
\* position, following the children that are tags on both sides
Corr(a, b) ==
    LET ca == out.pre[a].children
        cb == nodes[b].children
        both == {i \in DOMAIN ca \cap DOMAIN cb : ca[i].k = "tag" /\ cb[i].k = "tag"}
    IN {<<a, b>>} \cup UNION {Corr(ca[i].id, cb[i].id) : i \in both}

\* the bytes an image object of the input tree carried when the call was made
OriginalBytes(i) ==
    LET src == DictGet(out.pre[i].attrs, "src")
    IN IF src.k = "bytes" THEN src.v ELSE out.preStreams[src.id].buf

\* the objects of the input tree that are mj-image with a bytes or BytesIO src
BinaryImagesGiven == {i \in DeepReach(out.pre, built) : IsBinaryImage(out.pre[i])}

\* children of b mirror those of a: a tag where a has a tag, the very same value elsewhere
ChildrenCarried(a, b) ==
    LET ca == out.pre[a].children
        cb == nodes[b].children
    IN /\ Len(ca) = Len(cb)
       /\ \A i \in DOMAIN ca :
             IF ca[i].k = "tag" THEN cb[i].k = "tag" ELSE cb[i] = ca[i]

\* what str() makes of the binary values a document can hold
BinaryTexts ==
    {Str(PyBytes(Png3)), Str(PyBytes(Png1))} \cup {Str(PyBytesIO(s)) : s \in StreamNames}

\* ------------------------------------------------------------------ claims

\* C1: a tree with N mj-image nodes whose src is bytes or BytesIO gives a map of
\* exactly N entries, each the base64 of its node's bytes (decoding gives the bytes
\* back), and each rewritten node's src is "cid:" + the key of its own entry.
C1_OneEntryPerBinaryImage ==
    Returned =>
        /\ Len(out.att) = Cardinality(BinaryImagesGiven)
        /\ \A p \in Corr(built, out.tag) :
              IsBinaryImage(out.pre[p[1]]) =>
                 \E e \in DOMAIN out.att :
                    /\ DictGet(nodes[p[2]].attrs, "src") = PyStr("cid:" \o out.att[e][1])
                    /\ b64decode(out.att[e][2]) = OriginalBytes(p[1])

\* C2 as stated: two calls on the same tree never share a CID filename.
C2_KeysNeverReused ==
    (calls >= 2 /\ out.att # <<>>) => DictKeys(out.att) \cap issued = {}

\* C2 as amended: the keys of a call are plot_<uuid digits>.png for the values it
\* drew, and a key of an earlier call comes back exactly when uuid4() repeats a
\* value drawn earlier; nothing else links the names of two calls.
C2_ReusedOnlyOnRepeatedDraw ==
    Returned =>
        /\ DictKeys(out.att) = {"plot_" \o t \o ".png" : t \in Range(out.toks)}
        /\ DictKeys(out.att) \cap issued
              = {"plot_" \o t \o ".png" : t \in Range(out.toks) \cap drawn}

\* two calls on a tree with a binary image whose key sets are disjoint
C2_Witness ==
    /\ calls = 2
    /\ out.att # <<>>
    /\ issued # {}
    /\ DictKeys(out.att) \cap issued = {}

\* C3: _to_mjml fails whenever any node of the tree is an mj-image whose src is
\* still bytes or BytesIO.
C3_RenderFailsOnBinaryImage ==
    (last.op = "render" /\ \E i \in Reach(nodes, last.id) : IsBinaryImage(nodes[i]))
        => ~last.res.ok

\* C4: the returned tree holds no bytes or BytesIO in any attribute of any node,
\* and _to_mjml on it succeeds and writes no raw bytes.
C4_NoBinaryLeft ==
    Returned =>
        /\ \A i \in Reach(nodes, out.tag) :
              \A j \in DOMAIN nodes[i].attrs : ~IsBinary(nodes[i].attrs[j][2])
        /\ _to_mjml(nodes, out.tag, 0, "\n").ok
        /\ _to_mjml(nodes, out.tag, 0, "\n").vals \cap BinaryTexts = {}

\* C5: the call leaves every node of the input as it was, and the returned tree
\* shares no node object with the input tree.
C5_InputKeptNothingShared ==
    Returned =>
        /\ SubSeq(nodes, 1, built) = out.pre
        /\ DeepReach(nodes, out.tag) \cap DeepReach(nodes, built) = {}

\* C6: a tree with no binary image source gives an empty map and a tree whose
\* every node has the tag name, attributes, content and children of the input.
C6_NoBinaryNoChange ==
    (Returned /\ BinaryImagesGiven = {}) =>
        /\ out.att = <<>>
        /\ \A p \in Corr(built, out.tag) :
              /\ nodes[p[2]].tagName = out.pre[p[1]].tagName
              /\ nodes[p[2]].attrs = out.pre[p[1]].attrs
              /\ nodes[p[2]].content = out.pre[p[1]].content
              /\ ChildrenCarried(p[1], p[2])

\* a returned copy of a tree of several nodes, one an mj-image with a URL for src
C6_Witness ==
    /\ Returned
    /\ BinaryImagesGiven = {}
    /\ Cardinality(Reach(out.pre, built)) >= 2
    /\ \E i \in Reach(out.pre, built) :
          /\ out.pre[i].tagName = "mj-image"
          /\ DictHas(out.pre[i].attrs, "src")
          /\ DictGet(out.pre[i].attrs, "src").k = "str"

\* C7: a rewritten image node keeps every attribute other than src, with its
\* name, value and place; only src changes, to the cid: reference.
C7_OtherAttributesKept ==
    Returned =>
        \A p \in Corr(built, out.tag) :
            IsBinaryImage(out.pre[p[1]]) =>
               LET old == out.pre[p[1]].attrs
                   new == nodes[p[2]].attrs
               IN /\ Len(new) = Len(old)
                  /\ \A i \in DOMAIN old :
                        /\ new[i][1] = old[i][1]
                        /\ old[i][1] # "src" => new[i][2] = old[i][2]
                        /\ old[i][1] = "src" =>
                              \E key \in DictKeys(out.att) : new[i][2] = PyStr("cid:" \o key)

\* a rewritten image that carries attributes before and after src
C7_Witness ==
    /\ Returned
    /\ \E p \in Corr(built, out.tag) :
          /\ IsBinaryImage(out.pre[p[1]])
          /\ Len(out.pre[p[1]].attrs) >= 3
          /\ out.pre[p[1]].attrs[2][1] = "src"

C9_ShapeKept ==
    Returned =>
        \A p \in Corr(built, out.tag) :
            /\ nodes[p[2]].tagName = out.pre[p[1]].tagName
            /\ nodes[p[2]].isLeaf = out.pre[p[1]].isLeaf
            /\ ChildrenCarried(p[1], p[2])
            /\ out.pre[p[1]].isLeaf => nodes[p[2]].content = out.pre[p[1]].content

\* a returned copy of a tree of three nodes mixing a binary image, another tag
\* with content and a child that is text
C9_Witness ==
    /\ Returned
    /\ Cardinality(Reach(out.pre, built)) >= 3
    /\ \E i \in Reach(out.pre, built) : IsBinaryImage(out.pre[i])
    /\ \E i \in Reach(out.pre, built) :
          out.pre[i].tagName = "mj-text" /\ out.pre[i].isLeaf /\ out.pre[i].content = PyStr("Hi")
    /\ \E i \in DOMAIN out.pre[built].children : out.pre[built].children[i].k = "str"

\* the content a leaf tag resolves: the positional argument if given, else the keyword
ResolvedContent == IF last.args # <<>> THEN last.args[1] ELSE last.content

\* C10 as stated: a leaf tag with at most one positional argument and valid content
\* is constructed; with two or more positional arguments it is a TypeError.
C10_LeafArity ==
    (last.op = "init" /\ last.isLeaf) =>
        /\ (Len(last.args) <= 1 /\ ResolvedContent.k \in {"none", "str", "int", "float"})
              => last.ok
        /\ Len(last.args) >= 2
              => (~last.ok /\ last.err = "TypeError: leaf tag accepts only one positional argument")

\* C10 as amended: a leaf tag with at most one positional argument, valid content
\* and an attributes argument that is absent or a mapping is constructed; with two
\* or more positional arguments it is a TypeError.
C10_LeafArityGivenMapping ==
    (last.op = "init" /\ last.isLeaf) =>
        /\ (/\ Len(last.args) <= 1
            /\ ResolvedContent.k \in {"none", "str", "int", "float"}
            /\ last.attributes.k \in {"none", "dict"})
              => last.ok
        /\ Len(last.args) >= 2
              => (~last.ok /\ last.err = "TypeError: leaf tag accepts only one positional argument")

\* a leaf tag constructed from one positional argument and a dict of attributes
C10_Witness ==
    /\ last.op = "init"
    /\ last.isLeaf
    /\ Len(last.args) = 1
    /\ last.attributes.k = "dict"
    /\ last.ok
    /\ nodes[built].content = last.args[1]

\* the TypeError messages MJMLTag.__init__ raises
TypeErrors ==
    {"TypeError: leaf tag accepts only one positional argument",
     "TypeError: content must be a string, int, or float",
     "TypeError: attributes must be a dict or TagAttrDict",
     "TypeError: attributes must be a dict or TagAttrDict; use positional arguments for container tags"}

\* C11: a leaf tag whose resolved content (the positional argument if given, else
\* the content keyword) is present and is not a string, an int or a float (a bool
\* being an int) is not constructed: a TypeError is raised, for a tag and for a
\* list in particular.
C11_LeafContentRejected ==
    (/\ last.op = "init"
     /\ last.isLeaf
     /\ ResolvedContent.k \notin {"none", "str", "int", "float", "bool"})
        => (~last.ok /\ last.err \in TypeErrors)

\* a leaf tag given a tag as its one positional argument, and refused for it
C11_Witness ==
    /\ last.op = "init"
    /\ last.isLeaf
    /\ Len(last.args) = 1
    /\ last.args[1].k = "tag"
    /\ last.attributes.k = "none"
    /\ ~last.ok
    /\ last.err = "TypeError: content must be a string, int, or float"

\* C12: an attributes argument that is present and is not a mapping makes the
\* constructor raise a TypeError, for a leaf and for a container tag alike; for a
\* container tag the message also tells the caller to pass children as positional
\* arguments.
C12_NonMappingAttributesRejected ==
    (last.op = "init" /\ last.attributes.k \notin {"none", "dict"}) =>
        /\ ~last.ok
        /\ last.err \in TypeErrors
        /\ ~last.isLeaf =>
              last.err = "TypeError: attributes must be a dict or TagAttrDict; use positional arguments for container tags"

\* a container tag given children and a string for attributes, and refused for it
C12_Witness ==
    /\ last.op = "init"
    /\ ~last.isLeaf
    /\ last.args # <<>>
    /\ last.attributes = PyStr("invalid")
    /\ ~last.ok
    /\ last.err = "TypeError: attributes must be a dict or TagAttrDict; use positional arguments for container tags"

RECURSIVE Leaves(_)
\* the tags and literals a sequence of positional arguments holds at any depth, in
\* order, None left out
Leaves(args) ==
    IF args = <<>> THEN <<>>
    ELSE LET arg == Head(args)
             rest == Leaves(Tail(args))
         IN IF arg.k = "none" THEN rest
            ELSE IF arg.k = "list" THEN Leaves(arg.items) \o rest
            ELSE <<arg>> \o rest

\* what _to_mjml writes for one child at the given indent: the markup of a tag, the
\* str() of a literal
ChildText(heap, c, indent, eol) ==
    IF c.k = "tag" THEN _to_mjml(heap, c.id, indent, eol).s ELSE Str(c)

\* C13: the positional children of a container tag are flattened in order: None
\* is dropped, sequences are flattened at every depth, a string stays one child,
\* and every tag or literal (string or number) given at any depth is rendered
\* exactly once, in argument order.
C13_FlattenedAtEveryDepth ==
    (/\ last.op = "init"
     /\ last.ok
     /\ ~last.isLeaf
     /\ last.content.k = "none"
     /\ _to_mjml(nodes, built, 0, "\n").ok)
        => LET given == Leaves(last.args)
           IN RenderChildren(nodes, nodes[built].children, 0, "\n").strs
                 = [i \in DOMAIN given |-> ChildText(nodes, given[i], 2, "\n")]

RECURSIVE BuiltAlike(_, _)
\* objects i and j were built from equal arguments: same tag name, same attributes
\* in the same order, same content, and children that are equal literals or tags
\* built alike in turn
BuiltAlike(i, j) ==
    /\ nodes[i].tagName = nodes[j].tagName
    /\ nodes[i].attrs = nodes[j].attrs
    /\ nodes[i].content = nodes[j].content
    /\ Len(nodes[i].children) = Len(nodes[j].children)
    /\ \A n \in DOMAIN nodes[i].children :
          LET a == nodes[i].children[n]
              b == nodes[j].children[n]
          IN IF a.k = "tag" /\ b.k = "tag" THEN BuiltAlike(a.id, b.id) ELSE a = b

\* the opening tag with the attributes one after the other as the dict holds them
OpeningTag(tag) ==
    LET n == Len(tag.attrs)
        upTo[i \in 0..n] ==
            IF i = 0 THEN "<" \o tag.tagName
            ELSE upTo[i - 1] \o " " \o tag.attrs[i][1] \o "=\"" \o Str(tag.attrs[i][2]) \o "\""
    IN upTo[n] \o ">"

\* C14: _to_mjml is deterministic: two trees built from equal arguments serialize
\* to the same string (or fail alike), and a tag's attributes are written in the
\* order they were inserted.
C14_Deterministic ==
    /\ \A i, j \in DOMAIN nodes :
          BuiltAlike(i, j) => _to_mjml(nodes, i, 0, "\n") = _to_mjml(nodes, j, 0, "\n")
    /\ \A i \in DOMAIN nodes :
          (/\ nodes[i].children = <<>>
           /\ nodes[i].content.k = "none"
           /\ ~IsBinaryImage(nodes[i]))
              => _to_mjml(nodes, i, 0, "\n").s
                    = OpeningTag(nodes[i]) \o "</" \o nodes[i].tagName \o ">"

\* two distinct trees built alike, each of several objects with an attribute on
\* one of them, that serialize
C14_Witness ==
    \E i, j \in DOMAIN nodes :
       /\ i # j
       /\ BuiltAlike(i, j)
       /\ Cardinality(Reach(nodes, i)) >= 2
       /\ Reach(nodes, i) \cap Reach(nodes, j) = {}
       /\ \E n \in Reach(nodes, i) : nodes[n].attrs # <<>>
       /\ _to_mjml(nodes, i, 0, "\n").ok

\* the text of an indent of 0, 2 or 4
IndentText(indent) == CASE indent = 0 -> "" [] indent = 2 -> "  " [] indent = 4 -> "    "

\* has the item of a mapping a value other than None
HasValue(item) == item[2].k # "none"

\* C15: of the attributes given to the constructor, those with value None are not
\* stored, bytes and BytesIO values are stored as they are, and every other value
\* is stored as its string form (100 as "100", 0.5 as "0.5", True as "True");
\* rendering writes the stored attributes as key="value" pairs with a space
\* before each.
C15_AttributesStringified ==
    /\ (last.op = "init" /\ last.ok /\ last.attributes.k = "dict") =>
          LET given == SelectSeq(last.attributes.items, HasValue)
          IN nodes[built].attrs
                = [i \in DOMAIN given |->
                      <<given[i][1],
                        IF given[i][2].k \in {"bytes", "bytesio"} THEN given[i][2]
                        ELSE PyStr(Str(given[i][2]))>>]
    /\ (/\ last.op = "render"
        /\ last.res.ok
        /\ nodes[last.id].content.k = "none"
        /\ \A n \in DOMAIN nodes[last.id].children :
              nodes[last.id].children[n].k \notin {"tag", "str", "float"})
          => last.res.s = IndentText(last.indent) \o OpeningTag(nodes[last.id])
                             \o "</" \o nodes[last.id].tagName \o ">"

\* a tag built with an int, a bool, a None and a float for attributes, rendered
C15_Witness ==
    /\ last.op = "render"
    /\ last.indent = 2
    /\ nodes[last.id].attrs
          = << <<"width", PyStr("100")>>, <<"visible", PyStr("True")>>,
               <<"opacity", PyStr("0.5")>> >>
    /\ last.res.ok
    /\ last.res.s = "  <mj-text width=\"100\" visible=\"True\" opacity=\"0.5\"></mj-text>"

\* the children _to_mjml writes: tags, strings and floats
Renderable(children) ==
    SelectSeq(children, LAMBDA c : c.k \in {"tag", "str", "float"})

\* C16: a tag with no content and no renderable child serializes, when it
\* serializes, to the indent followed by <tagName attrs></tagName>, with no line
\* separator between the opening and the closing tag.
C16_EmptyOnOneLine ==
    (/\ last.op = "render"
     /\ last.res.ok
     /\ nodes[last.id].content.k = "none"
     /\ Renderable(nodes[last.id].children) = <<>>)
        => LET self == nodes[last.id]
           IN last.res.s
                 = IndentText(last.indent) \o "<" \o self.tagName
                   \o (IF self.attrs = <<>> THEN "" ELSE " " \o AttrStr(self.attrs))
                   \o "></" \o self.tagName \o ">"

\* a container tag with attributes whose only children are None and a nested list,
\* rendered at an indent of two
C16_Witness ==
    /\ last.op = "render"
    /\ last.res.ok
    /\ last.indent = 2
    /\ last.eol = "\r\n"
    /\ nodes[last.id].content.k = "none"
    /\ nodes[last.id].attrs # <<>>
    /\ nodes[last.id].children # <<>>
    /\ Renderable(nodes[last.id].children) = <<>>

\* the inner part of the rendered tag: the content as text if content is set, else
\* the renderable children one after the other, a tag at the indent plus two and a
\* literal as its text, with the line separator between them
InnerPart(id, indent, eol) ==
    LET self == nodes[id]
        kids == Renderable(self.children)
        upTo[i \in 0..Len(kids)] ==
            IF i = 0 THEN ""
            ELSE upTo[i - 1] \o (IF i = 1 THEN "" ELSE eol)
                 \o ChildText(nodes, kids[i], indent + 2, eol)
    IN IF self.content.k # "none" THEN Str(self.content) ELSE upTo[Len(kids)]

\* indent, opening tag, line separator, the inner part, line separator, indent,
\* closing tag
ManyLines(id, indent, eol) ==
    LET self == nodes[id]
    IN IndentText(indent) \o "<" \o self.tagName
       \o (IF self.attrs = <<>> THEN "" ELSE " " \o AttrStr(self.attrs)) \o ">"
       \o eol \o InnerPart(id, indent, eol) \o eol
       \o IndentText(indent) \o "</" \o self.tagName \o ">"

C18_ContentHidesChildren ==
    (/\ last.op = "render"
     /\ nodes[last.id].content.k # "none"
     /\ ~IsBinaryImage(nodes[last.id]))
        => LET self == nodes[last.id]
               text == Str(self.content)
           IN /\ last.res.ok
              /\ last.res.s
                    = IF text # ""
                      THEN IndentText(last.indent) \o OpeningTag(self) \o last.eol \o text
                           \o last.eol \o IndentText(last.indent) \o "</" \o self.tagName \o ">"
                      ELSE IndentText(last.indent) \o OpeningTag(self)
                           \o "</" \o self.tagName \o ">"

\* a rendered container tag with content "Hello", a text child and a child
\* mj-image that still holds bytes
C18_Witness ==
    /\ last.op = "render"
    /\ last.res.ok
    /\ nodes[last.id].content = PyStr("Hello")
    /\ \E n \in DOMAIN nodes[last.id].children : nodes[last.id].children[n] = PyStr("txt")
    /\ \E n \in DOMAIN nodes[last.id].children :
          /\ nodes[last.id].children[n].k = "tag"
          /\ IsBinaryImage(nodes[nodes[last.id].children[n].id])

\* C19: whenever to_html or mjml_to_intermediate_email hands the markup of a tree
\* to mjml2html, no object of that tree is an mj-image whose src is still bytes or
\* BytesIO: inlining has replaced it, or an error was raised before the compiler.
C19_CompilerNeverSeesBinaryTree ==
    (last.op \in {"to_html", "email"} /\ last.input.k = "tag" /\ last.compiled)
        => \A i \in Reach(nodes, last.tree) : ~IsBinaryImage(nodes[i])

\* C20: in an email made by mjml_to_intermediate_email, the cid: references of the
\* markup handed to the compiler are those of the keys of inline_attachments: each
\* reference names a key and each key is referenced.
C20_ReferencesMatchAttachments ==
    (last.op = "email" /\ last.compiled)
        => last.refs = {"cid:" \o key : key \in DictKeys(last.inline_attachments)}

\* ------------------------------------------------------------------ concurrent inlining

Threads == {1, 2}

\* the object a bundle of keyword arguments builds, given its positional arguments
Built(inp, args) == MJMLTag_init(inp.tagName, args, inp.attributes, inp.content, inp.isLeaf).node

\* the documents the threads work on: two images under one column; an image under
\* a column next to text, and a second image that reads the same BytesIO
ConcHeaps ==
    { << Built(ImageOfBytesIO, <<>>), Built(ImageOfBytes, <<>>),
         Built(Column, <<PyTag(1), PyTag(2)>>) >>,
      << Built(ImageOfBytesIO, <<>>), Built(Column, <<PyTag(1), PyStr("txt")>>),
         Built(ImageOfBytesIO, <<>>) >> }

\* a thread that has not called yet
Idle == [pc |-> "idle", root |-> 0, stack |-> <<>>, att |-> <<>>, toks |-> <<>>, result |-> 0]

\* the documents exist, the BytesIO has been read up to any position, no call was made
InitConc ==
    /\ nodes \in ConcHeaps
    /\ \E p \in 0..Len(Buf2) :
          streams = [s \in StreamNames |-> [buf |-> Buf2, pos |-> p, closed |-> FALSE]]
    /\ built = Len(nodes)
    /\ out = [NoOut EXCEPT !.pre = nodes, !.preStreams = streams]
    /\ issued = {}
    /\ drawn = {}
    /\ calls = 0
    /\ last = [op |-> "none"]
    /\ threads = [t \in Threads |-> Idle]
    /\ cid_counter = 0
    /\ files = <<>>
    /\ server = <<>>
    /\ email = None

\* thread t calls _process_mjml_images(mjml_tag): inline_attachments = {} is its own,
\* and _process_tag(mjml_tag) is entered
CallInline(t, mjml_tag) ==
    /\ threads[t].pc = "idle"
    /\ threads' = [threads EXCEPT ![t] =
                      [Idle EXCEPT !.pc = "run", !.root = mjml_tag,
                                   !.stack = <<[tag |-> mjml_tag, new |-> 0, i |-> 0]>>]]
    /\ last' = [op |-> "call", thread |-> t]
    /\ UNCHANGED <<nodes, streams, built, out, issued, drawn, calls, cid_counter, files, server, email>>

\* thread t, inside _process_tag(tag) before the loop: the image is read and recorded,
\* new_tag is allocated
VisitTag(t, tok) ==
    LET th == threads[t]
        f == th.stack[Len(th.stack)]
        tag == nodes[f.tag]
        rewrite == IsBinaryImage(tag)
        conv == _convert_to_bytes(DictGet(tag.attrs, "src"), streams)
        cid_filename == CidFilename(tok)
        new_attrs == IF rewrite THEN RewrittenAttrs(tag.attrs, cid_filename) ELSE tag.attrs
        new_tag == MJMLTag_init(tag.tagName, <<>>, PyDict(new_attrs), tag.content, tag.isLeaf).node
    IN /\ nodes' = Append(nodes, new_tag)
       /\ streams' = IF rewrite THEN conv.streams ELSE streams
       /\ threads' = [threads EXCEPT
             ![t].stack[Len(th.stack)] = [f EXCEPT !.new = Len(nodes) + 1, !.i = 1],
             ![t].att = IF rewrite THEN DictSet(@, cid_filename, b64encode(conv.val)) ELSE @,
             ![t].toks = IF rewrite THEN Append(@, tok) ELSE @]
       /\ last' = [op |-> "visit", thread |-> t,
                   src |-> IF rewrite THEN DictGet(tag.attrs, "src") ELSE None,
                   stored |-> IF rewrite THEN b64encode(conv.val) ELSE <<>>]

\* thread t, inside the loop over tag.children: a child that is a tag is processed
\* by a nested call, any other child is appended as it is
LoopChild(t) ==
    LET th == threads[t]
        f == th.stack[Len(th.stack)]
        child == nodes[f.tag].children[f.i]
    IN /\ IF child.k = "tag"
          THEN /\ threads' = [threads EXCEPT
                     ![t].stack = Append(@, [tag |-> child.id, new |-> 0, i |-> 0])]
               /\ nodes' = nodes
          ELSE /\ nodes' = [nodes EXCEPT ![f.new].children = Append(@, child)]
               /\ threads' = [threads EXCEPT ![t].stack[Len(th.stack)].i = f.i + 1]
       /\ streams' = streams
       /\ last' = [op |-> "child", thread |-> t]

\* thread t returns new_tag from _process_tag: to the loop of the caller, which
\* appends it, or to _process_mjml_images, which returns
ReturnTag(t) ==
    LET th == threads[t]
        n == Len(th.stack)
        f == th.stack[n]
    IN /\ IF n = 1
          THEN /\ threads' = [threads EXCEPT ![t].stack = <<>>, ![t].pc = "done",
                                             ![t].result = f.new]
               /\ nodes' = nodes
          ELSE /\ nodes' = [nodes EXCEPT ![th.stack[n - 1].new].children = Append(@, PyTag(f.new))]
               /\ threads' = [threads EXCEPT
                     ![t].stack = [SubSeq(th.stack, 1, n - 1) EXCEPT ![n - 1].i = @ + 1]]
       /\ streams' = streams
       /\ last' = [op |-> "return", thread |-> t]

\* one step of thread t between two points where the interpreter may switch threads
StepInline(t) ==
    /\ threads[t].pc = "run"
    /\ LET f == threads[t].stack[Len(threads[t].stack)]
       IN IF f.i = 0
          THEN IF IsBinaryImage(nodes[f.tag])
               THEN \E tok \in Tokens : VisitTag(t, tok)
               ELSE VisitTag(t, "")
          ELSE IF f.i <= Len(nodes[f.tag].children) THEN LoopChild(t) ELSE ReturnTag(t)
    /\ UNCHANGED <<built, out, issued, drawn, calls, cid_counter, files, server, email>>

NextConc ==
    \/ \E t \in Threads : \E mjml_tag \in 1..built : CallInline(t, mjml_tag)
    \/ \E t \in Threads : StepInline(t)

SpecConc == InitConc /\ [][NextConc]_vars

RECURSIVE Shape(_, _)
\* the tree under the object id, object identities left out
Shape(heap, id) ==
    [tagName |-> heap[id].tagName, attrs |-> heap[id].attrs, content |-> heap[id].content,
     isLeaf |-> heap[id].isLeaf,
     children |-> [i \in DOMAIN heap[id].children |->
                      IF heap[id].children[i].k = "tag"
                      THEN Shape(heap, heap[id].children[i].id)
                      ELSE heap[id].children[i]]]

\* what thread t's call returns when it runs alone on the documents as they were,
\* uuid4() giving what it gave to t
Alone(t) == _process_mjml_images(out.pre, out.preStreams, threads[t].root, threads[t].toks)

\* C21: under every interleaving of two _process_mjml_images calls, on the same tree
\* or on distinct trees, each call that has returned gives the tree shape and the
\* attachment map it gives when run alone, and the input objects are as they were
C21_ConcurrentCallsIndependent ==
    /\ threads # <<>> =>
          /\ SubSeq(nodes, 1, built) = out.pre
          /\ \A s \in StreamNames : streams[s].buf = out.preStreams[s].buf
          /\ \A t \in Threads :
                threads[t].pc = "done" =>
                   /\ Shape(nodes, threads[t].result) = Shape(Alone(t).heap, Alone(t).tag)
                   /\ threads[t].att = Alone(t).att

\* both calls have returned, they ran on the same column holding two binary images,
\* and the second call started before the first returned
C21_Witness ==
    /\ threads # <<>>
    /\ \A t \in Threads : threads[t].pc = "done" /\ threads[t].root = 3
    /\ Len(threads[1].att) = 2
    /\ threads[1].result < threads[2].result
    /\ \E i \in DeepReach(nodes, threads[1].result) : i > threads[2].result

\* the BytesIO objects that images of the tree thread t was called on hold as src
HandlesOf(t) ==
    {DictGet(out.pre[i].attrs, "src").id :
        i \in {j \in DeepReach(out.pre, threads[t].root) :
                  IsBinaryImage(out.pre[j]) /\ DictGet(out.pre[j].attrs, "src").k = "bytesio"}}

\* C22 (as stated): once _process_mjml_images has returned, every BytesIO that was
\* the src of an image of its tree is read to its end and closed
C22_DrainedThenClosed ==
    threads # <<>> =>
       \A t \in Threads :
          threads[t].pc = "done" =>
             \A s \in HandlesOf(t) :
                streams[s].closed /\ streams[s].pos = Len(streams[s].buf)

\* C22 (amended): whatever the read position of a BytesIO src, the attachment stored
\* for its image encodes the complete buffer; and once _process_mjml_images has
\* returned, the BytesIO is at the position it had and still open
C22_WholePayloadHandleUntouched ==
    threads # <<>> =>
       /\ (last.op = "visit" /\ last.src.k = "bytesio") =>
             last.stored = b64encode(out.preStreams[last.src.id].buf)
       /\ \A t \in Threads :
             threads[t].pc = "done" =>
                \A s \in HandlesOf(t) :
                   /\ streams[s].pos = out.preStreams[s].pos
                   /\ ~streams[s].closed

\* a call has returned whose tree had a BytesIO image, the BytesIO standing in the
\* middle of its buffer when the call was made, and the whole buffer was attached
C22_Witness ==
    /\ threads # <<>>
    /\ \E t \in Threads :
          /\ threads[t].pc = "done"
          /\ HandlesOf(t) # {}
          /\ \A s \in HandlesOf(t) : out.preStreams[s].pos = 1 /\ Len(out.preStreams[s].buf) = 2
          /\ \E e \in Range(threads[t].att) : e[2] = b64encode(Buf2)

\* ------------------------------------------------------------------ counter-based image_bytes

\* the src values image_bytes is called with
ImageSrcs == {PyBytes(Png1), PyBytesIO("s1"), PyStr("https://x/i.png")}

\* a thread outside image_bytes: the filenames its calls got so far
Resting == [pc |-> "idle", reg |-> 0, made |-> 0, names |-> <<>>]

\* the module is imported: _cid_counter = [0]
InitCounter ==
    /\ nodes = <<>>
    /\ streams = [s \in StreamNames |-> [buf |-> Buf2, pos |-> 0, closed |-> FALSE]]
    /\ built = 0
    /\ out = NoOut
    /\ issued = {}
    /\ drawn = {}
    /\ calls = 0
    /\ last = [op |-> "none"]
    /\ threads = [t \in Threads |-> Resting]
    /\ cid_counter = 0
    /\ files = <<>>
    /\ server = <<>>
    /\ email = None

\* thread t calls image_bytes(attributes={"src": src}): a src that is not binary
\* goes to the regular image tag, a binary one is converted and encoded
image_bytes(t, src) ==
    /\ threads[t].pc = "idle"
    /\ threads[t].made < MaxImageCalls
    /\ threads' = [threads EXCEPT ![t].pc = IF IsBinary(src) THEN "load" ELSE "idle",
                                  ![t].made = @ + 1]
    /\ last' = [op |-> "image_bytes", thread |-> t, src |-> src]
    /\ UNCHANGED <<cid_counter, issued>>
    /\ UNCHANGED <<nodes, streams, built, out, drawn, calls, files, server, email>>

\* _cid_counter[0] += 1, first half: the element is read
CounterLoad(t) ==
    /\ threads[t].pc = "load"
    /\ threads' = [threads EXCEPT ![t].pc = "store", ![t].reg = cid_counter]
    /\ last' = [op |-> "load", thread |-> t]
    /\ UNCHANGED <<cid_counter, issued>>
    /\ UNCHANGED <<nodes, streams, built, out, drawn, calls, files, server, email>>

\* _cid_counter[0] += 1, second half: the sum is stored
CounterStore(t) ==
    /\ threads[t].pc = "store"
    /\ cid_counter' = threads[t].reg + 1
    /\ threads' = [threads EXCEPT ![t].pc = "name"]
    /\ last' = [op |-> "store", thread |-> t]
    /\ UNCHANGED issued
    /\ UNCHANGED <<nodes, streams, built, out, drawn, calls, files, server, email>>

\* cid_filename = f"plot_{_cid_counter[0]}.png": the element is read again; the
\* mj-raw tag carrying the name is returned
NameFile(t) ==
    /\ threads[t].pc = "name"
    /\ threads' = [threads EXCEPT ![t].pc = "idle",
                                  ![t].names = Append(@, CidFilename(ToString(cid_counter)))]
    /\ issued' = issued \cup Range(threads[t].names) \cup
                    UNION {Range(threads[u].names) : u \in Threads \ {t}}
    /\ last' = [op |-> "named", thread |-> t, cid_filename |-> CidFilename(ToString(cid_counter)),
                earlier |-> UNION {Range(threads[u].names) : u \in Threads}]
    /\ UNCHANGED cid_counter
    /\ UNCHANGED <<nodes, streams, built, out, drawn, calls, files, server, email>>

NextCounter ==
    \/ \E t \in Threads : \E src \in ImageSrcs : image_bytes(t, src)
    \/ \E t \in Threads : CounterLoad(t)
    \/ \E t \in Threads : CounterStore(t)
    \/ \E t \in Threads : NameFile(t)

SpecCounter == InitCounter /\ [][NextCounter]_vars

\* C29: a call of image_bytes with a binary src gets a filename plot_<n>.png that no
\* earlier call in the process got, also when the calls of several threads interleave
C29_CounterNamesDistinct ==
    last.op = "named" => last.cid_filename \notin last.earlier

\* ------------------------------------------------------------------ preview and Quarto JSON

\* a str as the sequence of its characters
PyChars(cs) == [k |-> "chars", v |-> cs]

\* HTML is the sequence of its pieces: plain text, an opening <body ...> tag, or a
\* src attribute  src=<quote><scheme>:<ref><quote>
Text(s) == [k |-> "text", s |-> s]
BodyTag == [k |-> "body"]
SrcAttr(quote, scheme, ref) == [k |-> "src", quote |-> quote, scheme |-> scheme, ref |-> ref]

\* the pattern  src="cid:([^"\s]+)"  matches the piece
CidPattern(piece) ==
    /\ piece.k = "src"
    /\ piece.quote = "\""
    /\ piece.scheme = "cid"
    /\ piece.ref # <<>>
    /\ \A i \in DOMAIN piece.ref : piece.ref[i] \notin {" ", "\""}

\* ord(c) of the characters the attachments are written with
Ord(c) ==
    IF c = " " THEN 32
    ELSE IF c = "=" THEN 61
    ELSE IF c = "+" THEN 43
    ELSE IF c = "/" THEN 47
    ELSE IF B64Index(c) < 26 THEN 65 + B64Index(c)
    ELSE IF B64Index(c) < 52 THEN 97 + (B64Index(c) - 26)
    ELSE 48 + (B64Index(c) - 52)

\* the characters base64 text is made of
IsB64Char(c) == c = "=" \/ \E i \in DOMAIN B64Alphabet : B64Alphabet[i] = c

\* groups of four, = only as the last one or two characters
IsPadded(s) ==
    /\ Len(s) % 4 = 0
    /\ \A i \in DOMAIN s : s[i] = "=" => i >= Len(s) - 1
    /\ Len(s) > 0 => (s[Len(s) - 1] = "=" => s[Len(s)] = "=")

\* base64.b64decode(img_data) inside try/except: characters outside the alphabet
\* are discarded, text that is not padded base64 raises, and then the text itself,
\* encoded as UTF-8, is taken
DecodeOrRaw(cs) ==
    LET kept == SelectSeq(cs, IsB64Char)
    IN IF IsPadded(kept) THEN b64decode(kept) ELSE [i \in DOMAIN cs |-> Ord(cs[i])]

Truthy_NotNone(img_data) == img_data # None

\* if img_data: -- None, "" and b"" are false
Truthy(img_data) == img_data # None /\ img_data.v # <<>>

\* replace_cid(match), match being the piece the pattern matched
replace_cid(inline_attachments, match) ==
    LET cid == match.ref
        img_data == IF DictHas(inline_attachments, cid) THEN DictGet(inline_attachments, cid)
                    ELSE None
    IN IF Truthy(img_data)
       THEN LET img_bytes == IF img_data.k = "chars" THEN DecodeOrRaw(img_data.v)
                             ELSE img_data.v
            IN SrcAttr("\"", "data", <<"image;base64,">> \o b64encode(img_bytes))
       ELSE match

\* re.sub(r'src="cid:([^"\s]+)"', _add_base_64_to_inline_attachments(inline_attachments), html)
SubCid(inline_attachments, html) ==
    [i \in DOMAIN html |->
        IF CidPattern(html[i]) THEN replace_cid(inline_attachments.items, html[i]) ELSE html[i]]

\* self._generate_preview_html(): replace_cid is called for a match only, and on
\* inline_attachments = None it raises
_generate_preview_html(self) ==
    IF self.inline_attachments = None /\ \E i \in DOMAIN self.html.v : CidPattern(self.html.v[i])
    THEN Raised("AttributeError: 'NoneType' object has no attribute 'get'")
    ELSE [ok |-> TRUE,
          html |-> IF self.inline_attachments = None THEN self.html.v
                   ELSE SubCid(self.inline_attachments, self.html.v)]

\* re.escape(subject): a backslash before every character that is special in a pattern
ReEscape(cs) ==
    LET RECURSIVE Esc(_)
        Esc(i) == IF i > Len(cs) THEN <<>>
                  ELSE (IF cs[i] \in {" ", ".", "+", "?", "*"} THEN <<"\\", cs[i]>> ELSE <<cs[i]>>)
                       \o Esc(i + 1)
    IN Esc(1)

\* self._add_subject_header(html): the subject goes after the first <body ...> tag,
\* or in front when there is none
_add_subject_header(self, html) ==
    LET subject_ln == IF self.subject.v # <<>>
                      THEN <<[k |-> "subject", v |-> ReEscape(self.subject.v)]>>
                      ELSE <<>>
        bodies == {i \in DOMAIN html : html[i].k = "body"}
    IN IF bodies # {}
       THEN LET b == CHOOSE i \in bodies : \A j \in bodies : i <= j
            IN SubSeq(html, 1, b) \o subject_ln \o SubSeq(html, b + 1, Len(html))
       ELSE subject_ln \o html

\* if self.external_attachments: -- None and [] are false
HasExternal(self) ==
    self.external_attachments # None /\ self.external_attachments.items # <<>>

\* the file system after open(path, "w") and a write of content
Written(fs, path, content) ==
    [p \in DOMAIN fs \cup {path} |-> IF p = path THEN content ELSE fs[p]]

RECURSIVE Serializable(_)
\* json can encode the value: None, bool, str, list and dict, not bytes
Serializable(v) ==
    IF v.k \in {"list", "dict"}
    THEN \A i \in DOMAIN v.items :
            Serializable(IF v.k = "dict" THEN v.items[i][2] ELSE v.items[i])
    ELSE v.k \in {"none", "bool", "chars"}

RECURSIVE json_dump(_)
\* json.dump(v, f, indent=2): the JSON text, by its structure
json_dump(v) ==
    IF v.k = "none" THEN [j |-> "null"]
    ELSE IF v.k = "bool" THEN [j |-> IF v.v THEN "true" ELSE "false"]
    ELSE IF v.k = "chars" THEN [j |-> "string", s |-> v.v]
    ELSE IF v.k = "list" THEN [j |-> "array", of |-> [i \in DOMAIN v.items |-> json_dump(v.items[i])]]
    ELSE [j |-> "object",
          of |-> [i \in DOMAIN v.items |-> <<v.items[i][1], json_dump(v.items[i][2])>>]]

RECURSIVE json_load(_)
\* json.load(f)
json_load(t) ==
    IF t.j = "null" THEN None
    ELSE IF t.j = "true" THEN PyBool(TRUE)
    ELSE IF t.j = "false" THEN PyBool(FALSE)
    ELSE IF t.j = "string" THEN PyChars(t.s)
    ELSE IF t.j = "array" THEN PyList([i \in DOMAIN t.of |-> json_load(t.of[i])])
    ELSE PyDict([i \in DOMAIN t.of |-> <<t.of[i][1], json_load(t.of[i][2])>>])

\* metadata.get(key, default)
Get(metadata, key, default) ==
    IF DictHas(metadata, key) THEN DictGet(metadata, key) ELSE default

\* the metadata dict write_quarto_json builds
QuartoMetadata(self) ==
    << <<"email_subject", self.subject>>,
       <<"email_attachments",
         IF HasExternal(self) THEN self.external_attachments ELSE PyList(<<>>)>>,
       <<"email_body_html", self.html>> >>
    \o (IF self.text # None /\ self.text.v # <<>> THEN << <<"email_body_text", self.text>> >> ELSE <<>>)
    \o (IF self.inline_attachments # None /\ self.inline_attachments.items # <<>>
        THEN << <<"email_images", self.inline_attachments>> >> ELSE <<>>)
    \o (IF self.email_suppress_report_attachment # None
        THEN << <<"email_suppress_report_attachment", self.email_suppress_report_attachment>> >>
        ELSE <<>>)
    \o (IF self.email_suppress_scheduled # None
        THEN << <<"email_suppress_scheduled", self.email_suppress_scheduled>> >> ELSE <<>>)

\* the IntermediateEmail quarto_json_to_intermediate_email builds from the metadata
IntermediateEmailOf(metadata) ==
    [html |-> Get(metadata, "rsc_email_body_html", PyChars(<<>>)),
     text |-> Get(metadata, "rsc_email_body_text", PyChars(<<>>)),
     inline_attachments |-> Get(metadata, "rsc_email_images", PyDict(<<>>)),
     external_attachments |->
        PyList(Get(metadata, "rsc_output_files", PyList(<<>>)).items
               \o Get(metadata, "rsc_email_attachments", PyList(<<>>)).items),
     subject |-> Get(metadata, "rsc_email_subject", PyChars(<<>>)),
     rsc_email_supress_report_attachment |->
        Get(metadata, "rsc_email_supress_report_attachment", PyBool(FALSE)),
     rsc_email_supress_scheduled |-> Get(metadata, "rsc_email_supress_scheduled", PyBool(FALSE))]

\* characters of a short text
Img1 == <<"i", "m", "g", "1">>
Gone == <<"g", "o", "n", "e">>

Htmls ==
    { PyChars(<< Text("<html>"), BodyTag, Text("<p>Quarto email</p>"),
                 SrcAttr("\"", "cid", Img1), SrcAttr("\"", "cid", Gone),
                 SrcAttr("'", "cid", Img1), SrcAttr("\"", "cid", <<"i", " ", "1">>),
                 SrcAttr("\"", "https", <<"x">>), Text("</body></html>") >>),
      PyChars(<< Text("<p>Hello!</p>") >>) }

Subjects == {PyChars(<<"Q", "1", " ", "r">>), PyChars(<<>>)}
Texts == {None, PyChars(<<"t", "x", "t">>), PyChars(<<>>)}
Externals == {None, PyList(<<>>), PyList(<<PyChars(<<"a", ".", "p", "d", "f">>)>>)}
Inlines ==
    { None, PyDict(<<>>),
      PyDict(<< <<Img1, PyChars(<<"A", "Q", " ", "I", "=">>)>> >>),
      PyDict(<< <<Img1, PyChars(<<"x">>)>>, <<Gone, PyChars(<<>>)>> >>),
      PyDict(<< <<Img1, PyBytes(Png1)>>, <<Gone, PyBytes(<<>>)>> >>) }
Flags == {None, PyBool(TRUE), PyBool(FALSE)}

\* the Email objects a program holds
Emails ==
    [html : Htmls, subject : Subjects, text : Texts, external_attachments : Externals,
     inline_attachments : Inlines, email_suppress_report_attachment : Flags,
     email_suppress_scheduled : Flags]

Paths == {"preview_email.html", ".output_metadata.json"}

\* an Email has been constructed, nothing was written
InitEmail ==
    /\ nodes = <<>>
    /\ streams = [s \in StreamNames |-> [buf |-> Buf2, pos |-> 0, closed |-> FALSE]]
    /\ built = 0
    /\ out = NoOut
    /\ issued = {}
    /\ drawn = {}
    /\ calls = 0
    /\ last = [op |-> "none"]
    /\ threads = <<>>
    /\ cid_counter = 0
    /\ files = <<>>
    /\ server = <<>>
    /\ email \in Emails

write_preview_email_RaisingFirst(out_file) ==
    /\ \E p \in {_generate_preview_html(email)} :
          /\ files' = IF p.ok /\ ~HasExternal(email)
                      THEN Written(files, out_file,
                                   [kind |-> "html", v |-> _add_subject_header(email, p.html)])
                      ELSE files
          /\ last' = [op |-> "write_preview_email", out_file |-> out_file,
                      raised |-> IF ~p.ok THEN p.err
                                 ELSE IF HasExternal(email)
                                 THEN "ValueError: Preview does not yet support external attachments."
                                 ELSE "",
                      preview |-> IF p.ok THEN p.html ELSE <<>>,
                      before |-> files]
    /\ UNCHANGED <<nodes, streams, built, out, issued, drawn, calls, threads, cid_counter,
                   server, email>>

\* email.write_preview_email(out_file): the preview is generated, the subject is
\* added, the file is written, and then external attachments are refused
write_preview_email(out_file) ==
    /\ \E p \in {_generate_preview_html(email)} :
          IF ~p.ok
          THEN /\ files' = files
               /\ last' = [op |-> "write_preview_email", out_file |-> out_file,
                           raised |-> p.err, preview |-> <<>>, before |-> files]
          ELSE /\ files' = Written(files, out_file,
                                   [kind |-> "html", v |-> _add_subject_header(email, p.html)])
               /\ last' = [op |-> "write_preview_email", out_file |-> out_file,
                           raised |-> IF HasExternal(email)
                                      THEN "ValueError: Preview does not yet support external attachments."
                                      ELSE "",
                           preview |-> p.html, before |-> files]
    /\ UNCHANGED <<nodes, streams, built, out, issued, drawn, calls, threads, cid_counter,
                   server, email>>

\* email.write_quarto_json(out_file): the file is opened, and json.dump raises on a
\* value it cannot encode, leaving the file cut short
write_quarto_json(out_file) ==
    /\ \E metadata \in {PyDict(QuartoMetadata(email))} :
          IF Serializable(metadata)
          THEN /\ files' = Written(files, out_file, [kind |-> "json", v |-> json_dump(metadata)])
               /\ last' = [op |-> "write_quarto_json", out_file |-> out_file, raised |-> ""]
          ELSE /\ files' = Written(files, out_file, [kind |-> "cut"])
               /\ last' = [op |-> "write_quarto_json", out_file |-> out_file,
                           raised |-> "TypeError: Object of type bytes is not JSON serializable"]
    /\ UNCHANGED <<nodes, streams, built, out, issued, drawn, calls, threads, cid_counter,
                   server, email>>

\* i_email = quarto_json_to_intermediate_email(path)
quarto_json_to_intermediate_email(path) ==
    /\ last' = IF path \notin DOMAIN files
               THEN [op |-> "quarto_json_to_intermediate_email", path |-> path, ok |-> FALSE,
                     raised |-> "FileNotFoundError"]
               ELSE IF files[path].kind # "json"
               THEN [op |-> "quarto_json_to_intermediate_email", path |-> path, ok |-> FALSE,
                     raised |-> "JSONDecodeError"]
               ELSE [op |-> "quarto_json_to_intermediate_email", path |-> path, ok |-> TRUE,
                     i_email |-> IntermediateEmailOf(json_load(files[path].v).items)]
    /\ UNCHANGED <<nodes, streams, built, out, issued, drawn, calls, threads, cid_counter,
                   files, server, email>>

NextEmail ==
    \/ \E out_file \in Paths : write_preview_email(out_file)
    \/ \E out_file \in Paths : write_quarto_json(out_file)
    \/ \E path \in Paths : quarto_json_to_intermediate_email(path)

SpecEmail == InitEmail /\ [][NextEmail]_vars

\* the latest call was write_preview_email and it raised the ValueError that refuses
\* external attachments
PreviewRefused ==
    /\ last.op = "write_preview_email"
    /\ last.raised = "ValueError: Preview does not yet support external attachments."

\* C23: an Email written with write_quarto_json and read back with
\* quarto_json_to_intermediate_email has the subject, html, text, external
\* attachments, inline attachments and the two suppression flags of the original
C23_QuartoRoundTrip ==
    (/\ last.op = "quarto_json_to_intermediate_email"
     /\ last.path \in DOMAIN files
     /\ files[last.path].kind = "json") =>
       /\ last.ok
       /\ last.i_email.subject = email.subject
       /\ last.i_email.html = email.html
       /\ last.i_email.text = email.text
       /\ last.i_email.external_attachments = email.external_attachments
       /\ last.i_email.inline_attachments = email.inline_attachments
       /\ last.i_email.rsc_email_supress_report_attachment = email.email_suppress_report_attachment
       /\ last.i_email.rsc_email_supress_scheduled = email.email_suppress_scheduled

\* C25: write_preview_email raises ValueError when external_attachments is not
\* empty, and does not raise it when external_attachments is empty
C25_ValueErrorIffExternal ==
    last.op = "write_preview_email" => (PreviewRefused <=> HasExternal(email))

\* the piece is  src="cid:X"
IsCidRef(piece) == piece.k = "src" /\ piece.quote = "\"" /\ piece.scheme = "cid"

\* the piece is  src="data:image;base64,<padded base64 text>"
IsDataUri(piece) ==
    /\ piece.k = "src" /\ piece.quote = "\"" /\ piece.scheme = "data"
    /\ Len(piece.ref) >= 1 /\ piece.ref[1] = "image;base64,"
    /\ IsPadded(Tail(piece.ref))

C28_PreviewWrittenBeforeError ==
    PreviewRefused =>
       /\ last.out_file \in DOMAIN files
       /\ files[last.out_file] =
             [kind |-> "html", v |-> _add_subject_header(email, last.preview)]

\* the call that raised the ValueError created out_file
C28_Witness ==
    /\ PreviewRefused
    /\ last.out_file \notin DOMAIN last.before
    /\ last.out_file \in DOMAIN files

\* ------------------------------------------------------------------ sending by SMTP

\* the value of the parameter security when the caller passes none: the default in
\* the signature is the typing object Literal["tls", "ssl", "smtp"], not a string
DefaultSecurity == [k |-> "typing.Literal", v |-> "tls|ssl|smtp"]

\* what a caller passes as security
SecurityArgs == {PyStr("tls"), PyStr("ssl"), PyStr("smtp"), PyStr("starttls")}

\* security not in ("tls", "ssl", "smtp") is false
Accepted(security) == security \in {PyStr("tls"), PyStr("ssl"), PyStr("smtp")}

Pdf == <<"a", ".", "p", "d", "f">>

\* the emails that are sent
SmtpEmails ==
    [html : {PyChars(<< Text("<p>Hello!</p>") >>)}, subject : {PyChars(<<"Q", "1">>)},
     text : {None, PyChars(<<"t", "x", "t">>)},
     external_attachments : {None, PyList(<<>>), PyList(<<PyChars(Pdf)>>)},
     inline_attachments : {None, PyDict(<< <<Img1, PyChars(<<"A", "Q", "I", "=">>)>> >>)},
     recipients : {None, PyList(<<PyChars(<<"a", "@", "x">>)>>)}]

\* an email to send, the attachment file present or not, no call made
InitSmtp ==
    /\ nodes = <<>>
    /\ streams = [s \in StreamNames |-> [buf |-> Buf2, pos |-> 0, closed |-> FALSE]]
    /\ built = 0
    /\ out = NoOut
    /\ issued = {}
    /\ drawn = {}
    /\ calls = 0
    /\ last = [op |-> "none"]
    /\ threads = <<>>
    /\ cid_counter = 0
    /\ files \in {<<>>, [p \in {Pdf} |-> [kind |-> "bytes"]]}
    /\ server = <<>>
    /\ email \in SmtpEmails

\* what the steps of a call leave alone
SmtpFrame == <<nodes, streams, built, out, issued, drawn, calls, threads, cid_counter,
               files, email>>

\* send_intermediate_email_with_smtp(host, port, username, password, i_email[, security])
SendCall(given, security) ==
    /\ last.op = "none" \/ (last.op = "send" /\ last.pc \in {"returned", "raised"})
    /\ last' = [op |-> "send", given |-> given, security |-> security, pc |-> "validate",
                composed |-> FALSE, raised |-> ""]
    /\ server' = <<>>
    /\ UNCHANGED SmtpFrame

\* the call ends with an exception; a connection that is open is closed by its with block
Raise(what) ==
    /\ last' = [last EXCEPT !.pc = "raised", !.raised = what]
    /\ server' = IF server # <<>> THEN Append(server, "close") ELSE server

\* if security not in ("tls", "ssl", "smtp"): raise ValueError
Validate ==
    /\ last.op = "send" /\ last.pc = "validate"
    /\ IF Accepted(last.security)
       THEN last' = [last EXCEPT !.pc = "compose"] /\ server' = server
       ELSE Raise("ValueError: security must be 'tls', 'ssl', or 'smtp'")
    /\ UNCHANGED SmtpFrame

\* the MIME message is built: the recipients are joined, the attachment files are read
Compose ==
    /\ last.op = "send" /\ last.pc = "compose"
    /\ IF email.recipients = None
       THEN Raise("TypeError: can only join an iterable")
       ELSE IF HasExternal(email)
               /\ \E i \in DOMAIN email.external_attachments.items :
                     email.external_attachments.items[i].v \notin DOMAIN files
       THEN Raise("FileNotFoundError")
       ELSE last' = [last EXCEPT !.pc = "connect", !.composed = TRUE] /\ server' = server
    /\ UNCHANGED SmtpFrame

AfterConnect_NoStartTls(security) == "login"

\* the first call made on the connection
AfterConnect(security) == IF security = PyStr("tls") THEN "starttls" ELSE "login"

\* with smtplib.SMTP_SSL(host, port) as server / with smtplib.SMTP(host, port) as server
Connect(reached) ==
    /\ last.op = "send" /\ last.pc = "connect"
    /\ IF reached
       THEN /\ server' = Append(server, IF last.security = PyStr("ssl") THEN "SMTP_SSL" ELSE "SMTP")
            /\ last' = [last EXCEPT !.pc = AfterConnect(last.security)]
       ELSE Raise("OSError: connection refused")
    /\ UNCHANGED SmtpFrame

\* server.starttls()
StartTls(accepted) ==
    /\ last.op = "send" /\ last.pc = "starttls"
    /\ IF accepted
       THEN server' = Append(server, "starttls") /\ last' = [last EXCEPT !.pc = "login"]
       ELSE /\ server' = server \o <<"starttls", "close">>
            /\ last' = [last EXCEPT !.pc = "raised", !.raised = "SMTPNotSupportedError"]
    /\ UNCHANGED SmtpFrame

\* server.login(username, password); in "smtp" mode an SMTPException is passed over
Login(accepted) ==
    /\ last.op = "send" /\ last.pc = "login"
    /\ IF accepted \/ last.security = PyStr("smtp")
       THEN server' = Append(server, "login") /\ last' = [last EXCEPT !.pc = "sendmail"]
       ELSE /\ server' = server \o <<"login", "close">>
            /\ last' = [last EXCEPT !.pc = "raised", !.raised = "SMTPAuthenticationError"]
    /\ UNCHANGED SmtpFrame

\* server.sendmail(msg["From"], i_email.recipients, msg.as_string())
Sendmail(accepted) ==
    /\ last.op = "send" /\ last.pc = "sendmail"
    /\ IF accepted
       THEN server' = Append(server, "sendmail") /\ last' = [last EXCEPT !.pc = "exit"]
       ELSE /\ server' = server \o <<"sendmail", "close">>
            /\ last' = [last EXCEPT !.pc = "raised", !.raised = "SMTPRecipientsRefused"]
    /\ UNCHANGED SmtpFrame

\* the with block is left: the connection is closed and the call returns
Exit ==
    /\ last.op = "send" /\ last.pc = "exit"
    /\ server' = Append(server, "quit")
    /\ last' = [last EXCEPT !.pc = "returned"]
    /\ UNCHANGED SmtpFrame

NextSmtp ==
    \/ \E security \in SecurityArgs : SendCall(TRUE, security)
    \/ SendCall(FALSE, DefaultSecurity)
    \/ Validate
    \/ Compose
    \/ \E reached \in BOOLEAN : Connect(reached)
    \/ \E accepted \in BOOLEAN : StartTls(accepted)
    \/ \E accepted \in BOOLEAN : Login(accepted)
    \/ \E accepted \in BOOLEAN : Sendmail(accepted)
    \/ Exit

SpecSmtp == InitSmtp /\ [][NextSmtp]_vars

\* the ValueError of the validation
SecurityError == "ValueError: security must be 'tls', 'ssl', or 'smtp'"

\* C24: a call without a security argument goes on as a call with security="tls"
\* does, and ValueError is raised only for a security argument that is none of
\* "tls", "ssl", "smtp"
C24_DefaultIsTls ==
    last.op = "send" =>
       /\ ~last.given => (last.pc # "validate" => last.raised # SecurityError)
       /\ last.raised = SecurityError =>
             (last.given /\ last.security \notin {PyStr("tls"), PyStr("ssl"), PyStr("smtp")})

\* the calls made on the connection, its closing left out
Made == SelectSeq(server, LAMBDA e : e # "close")

\* s is the beginning of t
IsPrefix(s, t) == Len(s) <= Len(t) /\ SubSeq(t, 1, Len(s)) = s

\* C27: nothing is composed and no connection is opened for a security that is not
\* accepted; in "tls" mode the calls on the one SMTP connection are starttls, login,
\* sendmail in that order, in "ssl" mode SMTP_SSL is used with login, sendmail; a
\* call that returns has called sendmail exactly once, and no call calls it twice
C27_ValidateThenOrderedCalls ==
    last.op = "send" =>
       /\ (last.security \notin {PyStr("tls"), PyStr("ssl"), PyStr("smtp")}) =>
             (server = <<>> /\ ~last.composed)
       /\ last.pc = "validate" => (server = <<>> /\ ~last.composed)
       /\ last.security = PyStr("tls") =>
             IsPrefix(Made, <<"SMTP", "starttls", "login", "sendmail", "quit">>)
       /\ last.security = PyStr("ssl") =>
             IsPrefix(Made, <<"SMTP_SSL", "login", "sendmail", "quit">>)
       /\ Cardinality({i \in DOMAIN server : server[i] = "sendmail"}) <= 1
       /\ last.pc = "returned" =>
             /\ Made[Len(Made)] = "quit"
             /\ Cardinality({i \in DOMAIN server : server[i] = "sendmail"}) = 1

\* a "tls" send with an attachment has returned after SMTP, starttls, login, sendmail
C27_Witness ==
    /\ last.op = "send" /\ last.pc = "returned" /\ last.security = PyStr("tls")
    /\ HasExternal(email)
    /\ server = <<"SMTP", "starttls", "login", "sendmail", "quit">>

\* ------------------------------------------------------------------ compose_email

\* the components passed as header, body and footer: a Block holds its section tag
Block(mjml_tag) == [k |-> "block", tag |-> mjml_tag]
BlockList(sections) == [k |-> "blocklist", sections |-> sections]

\* _process_markdown(text) of a line of plain text
_process_markdown(text) == "<p>" \o text \o "</p>"

\* the heap after section(column(mjml_text(content=html, attributes={"align": align})))
SectionOfText(heap, html, align) ==
    LET h1 == Append(heap, MJMLTag_init("mj-text", <<>>, PyDict(<< <<"align", PyStr(align)>> >>),
                                        PyStr(html), TRUE).node)
        h2 == Append(h1, MJMLTag_init("mj-column", <<PyTag(Len(h1))>>, None, None, FALSE).node)
    IN Append(h2, MJMLTag_init("mj-section", <<PyTag(Len(h2))>>, None, None, FALSE).node)

\* block = block_text(text, align)
block_text(text, align) ==
    /\ calls = 0
    /\ built < 3 * MaxBlocks
    /\ nodes' = SectionOfText(nodes, _process_markdown(text), align)
    /\ built' = built + 3
    /\ last' = [op |-> "block_text"]
    /\ UNCHANGED <<streams, out, issued, drawn, calls, others>>

\* the Blocks created so far
Blocks == {Block(i) : i \in {j \in 1..built : nodes[j].tagName = "mj-section"}}

\* _component_to_mjml_section(component): the section tags of the component
_component_to_mjml_section(component) ==
    IF component.k = "none" THEN <<>>
    ELSE IF component.k = "block" THEN <<component.tag>>
    ELSE [i \in DOMAIN component.sections |-> component.sections[i].tag]

RECURSIVE DictMerge(_, _)
\* {**d, **items}
DictMerge(d, items) ==
    IF items = <<>> THEN d
    ELSE DictMerge(DictSet(d, Head(items)[1], Head(items)[2]), Tail(items))

RECURSIVE apply_to_children(_, _, _, _)
\* apply_to_children(current_tag): the attributes go to every MJMLTag among the
\* children, at any depth, whose tagName is in tag_names
apply_to_children(heap, current_tag, tag_names, attributes) ==
    LET RECURSIVE Loop(_, _)
        Loop(h, i) ==
            IF i > Len(h[current_tag].children) THEN h
            ELSE LET child == h[current_tag].children[i]
                 IN IF child.k # "tag" THEN Loop(h, i + 1)
                    ELSE LET h1 == IF h[child.id].tagName \in Range(tag_names.items)
                                   THEN [h EXCEPT ![child.id].attrs =
                                            TagAttrDict_update(@, attributes)]
                                   ELSE h
                         IN Loop(apply_to_children(h1, child.id, tag_names, attributes), i + 1)
    IN Loop(heap, 1)

_apply_attributes_ToCopy(heap, tag, tag_names, attributes) ==
    [heap |-> Append(heap, [heap[tag] EXCEPT !.attrs = DictMerge(@, attributes)]),
     tag |-> Len(heap) + 1]

\* _apply_attributes(tag, tag_names, attributes): the heap after it, and the tag returned
_apply_attributes(heap, tag, tag_names, attributes) ==
    IF tag_names = None
    THEN [heap |-> [heap EXCEPT ![tag].attrs = DictMerge(@, attributes)], tag |-> tag]
    ELSE [heap |-> apply_to_children(heap, tag, tag_names, attributes), tag |-> tag]

RECURSIVE ApplyEach(_, _, _, _)
\* [_apply_attributes(s, tag_names, attributes) for s in sections]
ApplyEach(heap, sections, tag_names, attributes) ==
    IF sections = <<>> THEN [heap |-> heap, tags |-> <<>>]
    ELSE LET one == _apply_attributes(heap, Head(sections), tag_names, attributes)
             rest == ApplyEach(one.heap, Tail(sections), tag_names, attributes)
         IN [heap |-> rest.heap, tags |-> <<one.tag>> \o rest.tags]

\* the attribute dicts of the Blastula template
BodyAttrs == << <<"background-color", PyStr("white")>>, <<"padding", PyStr("0px 10px")>> >>
WrapperAttrs == << <<"background-color", PyStr("#f6f6f6")>>, <<"padding", PyStr("10px")>> >>
section_attrs == << <<"background-color", PyStr("#f6f6f6")>>, <<"padding", PyStr("0px 20px")>> >>
text_attrs == << <<"font-size", PyStr("12px")>>, <<"color", PyStr("#999999")>>,
                <<"align", PyStr("center")>> >>

\* apply_blastula_styles(sections)
apply_blastula_styles(heap, sections) ==
    LET result == ApplyEach(heap, sections, None, section_attrs)
    IN ApplyEach(result.heap, result.tags, PyList(<<"mj-text">>), text_attrs)

\* the tags as a caller passes them to a constructor
AsArgs(tags) == [i \in DOMAIN tags |-> PyTag(tags[i])]

\* _apply_blastula_template(header_sections, body_sections, footer_sections)
_apply_blastula_template(heap, header_sections, body_sections, footer_sections) ==
    LET styled_body == ApplyEach(heap, body_sections, None, BodyAttrs)
        h1 == Append(styled_body.heap,
                     MJMLTag_init("mj-wrapper", AsArgs(styled_body.tags), PyDict(WrapperAttrs),
                                  None, FALSE).node)
        body_wrapper == Len(h1)
        head == apply_blastula_styles(h1, header_sections)
        foot == apply_blastula_styles(head.heap, footer_sections)
    IN [heap |-> foot.heap, tags |-> head.tags \o <<body_wrapper>> \o foot.tags]

\* mjml(head(mj_attributes(mj_all(attributes=...))), mj_body(*all_sections, attributes=...))
email_structure(heap, all_sections) ==
    LET h1 == Append(heap, MJMLTag_init("mj-all", <<>>,
                        PyDict(<< <<"padding", PyStr("0px")>>,
                                  <<"font-family", PyStr("Helvetica, sans-serif")>>,
                                  <<"font-size", PyStr("14px")>> >>), None, TRUE).node)
        h2 == Append(h1, MJMLTag_init("mj-attributes", <<PyTag(Len(h1))>>, None, None, FALSE).node)
        h3 == Append(h2, MJMLTag_init("mj-head", <<PyTag(Len(h2))>>, None, None, FALSE).node)
        h4 == Append(h3, MJMLTag_init("mj-body", AsArgs(all_sections),
                        PyDict(<< <<"width", PyStr("600px")>>,
                                  <<"background-color", PyStr("#f6f6f6")>> >>), None, FALSE).node)
    IN Append(h4, MJMLTag_init("mjml", <<PyTag(Len(h3)), PyTag(Len(h4))>>, None, None, FALSE).node)

\* compose_email(body, header, footer, title, template): the sections are styled, the
\* document is built around them, its copy without binary images is rendered and
\* compiled; of the objects made here only the email outlives the call
compose_email(body, header, footer, title, template) ==
    /\ calls < MaxCalls
    /\ LET header_mjml_list == _component_to_mjml_section(header)
           body_mjml_list == _component_to_mjml_section(body)
           footer_mjml_list == _component_to_mjml_section(footer)
           h0 == IF title # ""
                 THEN SectionOfText(nodes,
                         "<h1 style=\"margin: 0; font-size: 32px; font-weight: 300;\">"
                         \o _process_markdown(title) \o "</h1>", "center")
                 ELSE nodes
           header_all == IF title # "" THEN <<Len(h0)>> \o header_mjml_list ELSE header_mjml_list
       IN IF template \notin {"blastula", "none"}
          THEN /\ nodes' = nodes
               /\ last' = [op |-> "compose_email", body |-> body, header |-> header,
                           footer |-> footer, template |-> template, before |-> nodes,
                           raised |-> "ValueError: Unknown template", res |-> None]
          ELSE \E all \in {IF template = "blastula"
                           THEN _apply_blastula_template(h0, header_all, body_mjml_list,
                                                         footer_mjml_list)
                           ELSE [heap |-> h0,
                                 tags |-> header_all \o body_mjml_list \o footer_mjml_list]} :
               \E doc \in {email_structure(all.heap, all.tags)} :
               \E r \in {_process_mjml_images(doc, streams, Len(doc), <<>>)} :
               \E res \in {_to_mjml(r.heap, r.tag, 0, "\n")} :
                  /\ nodes' = SubSeq(all.heap, 1, built)
                  /\ last' = [op |-> "compose_email", body |-> body, header |-> header,
                              footer |-> footer, template |-> template, before |-> nodes,
                              raised |-> "", res |-> res]
    /\ calls' = calls + 1
    /\ UNCHANGED <<streams, built, out, issued, drawn, others>>

\* what a program passes as header, body or footer
Components ==
    {None} \cup Blocks
    \cup {BlockList(<<p[1], p[2]>>) : p \in {q \in Blocks \X Blocks : q[1].tag < q[2].tag}}

NextCompose ==
    \/ \E text \in {"Hi"} : block_text(text, "left")
    \/ /\ built >= 3
       /\ \E body \in Components, header \in Components, footer \in Components,
             title \in {"", "Welcome!"}, template \in {"blastula", "none", "fancy"} :
             compose_email(body, header, footer, title, template)

SpecCompose == Init /\ [][NextCompose]_vars

\* the section tags of the Blocks the latest compose_email call was given
GivenSections ==
    Range(_component_to_mjml_section(last.header))
    \cup Range(_component_to_mjml_section(last.body))
    \cup Range(_component_to_mjml_section(last.footer))

\* the section tags it was given as header or footer
GivenAround ==
    Range(_component_to_mjml_section(last.header))
    \cup Range(_component_to_mjml_section(last.footer))

\* C30: after compose_email with template "blastula" the section tag of every Block
\* given as header, body or footer has itself the background-color and padding of
\* the template, and the mj-text tags under a header or footer Block have its text
\* colour; no call takes an attribute away from a Block's tags, template "none" leaves
\* them as they are, and the markup of the email is written with the attributes the
\* Blocks carry, those applied by an earlier call included
C30_BlocksStyledInPlace ==
    (last.op = "compose_email" /\ last.raised = "") =>
       /\ last.template = "blastula" =>
             /\ \A s \in GivenSections :
                   {"background-color", "padding"} \subseteq DictKeys(nodes[s].attrs)
             /\ \A s \in GivenAround :
                   \A t \in DeepReach(nodes, s) :
                      nodes[t].tagName = "mj-text" =>
                         /\ DictHas(nodes[t].attrs, "color")
                         /\ DictGet(nodes[t].attrs, "color") = PyStr("#999999")
       /\ last.template = "none" => nodes = last.before
       /\ \A i \in 1..built : DictKeys(last.before[i].attrs) \subseteq DictKeys(nodes[i].attrs)
       /\ \A s \in GivenSections :
             \A t \in DeepReach(nodes, s) :
                \A a \in DOMAIN nodes[t].attrs : Str(nodes[t].attrs[a][2]) \in last.res.vals

\* a second call, with template "none", was given as body a Block that an earlier
\* "blastula" call had as header: the email is written with the header styling
C30_Witness ==
    /\ last.op = "compose_email" /\ last.raised = "" /\ last.template = "none"
    /\ calls = 2
    /\ last.body.k = "block"
    /\ DictHas(last.before[last.body.tag].attrs, "padding")
    /\ DictGet(nodes[last.body.tag].attrs, "padding") = PyStr("0px 20px")
    /\ "#999999" \in last.res.vals

====
